---- MODULE Spec2Model ----
(***************************************************************************)
(* A model of the markdown parsing and reflow core of IB_report_formatter  *)
(* (src/md_formatter.py, src/md_parser.py).                                *)
(*                                                                         *)
(* Text is a sequence of tokens.  A token is one character ("$", "*", ":", *)
(* " ", "\n", "x", ...) or an atom: a run of characters that the inputs    *)
(* only ever contain as a whole (a placeholder such as "__BOLD_0__", a     *)
(* keyword such as "references", a data-URI prefix).  Regular expressions  *)
(* of the source are written as scanning operators over token sequences.   *)
(***************************************************************************)
EXTENDS Integers, Sequences, FiniteSets, TLC

VARIABLES
    pc,              \* position of the running operation
    text,            \* the input text of a text operation
    result,          \* the working/returned text
    _block_store,    \* LaTeXProtector._block_store
    _inline_store,   \* LaTeXProtector._inline_store
    _store,          \* BoldProtector._store
    runs,            \* the TextRun list returned by parse_runs
    outputs,         \* the texts returned by successive format_markdown calls
    frontmatter,     \* format_markdown: the frontmatter block of the metadata
    lines,           \* the input lines of a line operation
    data_lines,      \* TableParser.parse: the non-separator lines
    table,           \* TableParser.parse: the Table being built
    warnings,        \* what logger.warning has reported, in order
    i,               \* _parse_elements: index of the line being read, from 0
    elements,        \* _parse_elements: the elements found so far
    in_references,   \* _parse_elements: inside a references section
    start_idx,       \* the index of the line the running loop body began at
    latex_lines,     \* _parse_elements: lines of the block equation being read
    table_lines,     \* _parse_elements: lines of the table being read
    bq_lines,        \* _parse_elements: lines of the blockquote being read
    combined,        \* parse_multiline: the image text joined so far
    idx,             \* parse_multiline: index of the next line to join
    frontmatter_lines,  \* FrontmatterParser.parse: the lines after the opening marker
    content_start_idx,  \* FrontmatterParser.parse: index of the line after the closing marker
    parsed_data,     \* FrontmatterParser.parse: what the frontmatter parsed to
    metadata,        \* FrontmatterParser.parse: the DocumentMetadata
    remaining,       \* FrontmatterParser.parse: the returned lines
    exception,       \* the exception that left the operation, "None" without one
    config,          \* DeepResearchCleaner.config
    footnotes,       \* clean: the OrderedDict of source ids and their numbers
    report,          \* clean: the CleanerReport
    matches,         \* _insert_major_headings: the matches still to be processed
    output_parts     \* MarkdownRenderer.render: the rendered parts

textVars == <<text, result, _block_store, _inline_store, _store, runs, outputs,
              frontmatter>>
tableVars == <<data_lines, table>>
parserVars == <<i, elements, in_references, start_idx, latex_lines, table_lines,
                bq_lines, combined, idx>>
frontVars == <<frontmatter_lines, content_start_idx, parsed_data, metadata, remaining,
               exception>>
cleanerVars == <<config, footnotes, report>>
structureVars == <<matches>>
renderVars == <<output_parts>>
nonTextVars == <<lines, tableVars, warnings, parserVars, frontVars, cleanerVars,
                 structureVars, renderVars>>
vars == <<pc, textVars, nonTextVars>>

\* the variables an operation does not own, at rest
TextIdle ==
    /\ text = <<>> /\ result = <<>> /\ runs = <<>> /\ outputs = <<>>
    /\ _block_store = <<>> /\ _inline_store = <<>> /\ _store = <<>>
    /\ frontmatter = <<>>
Table0 == [rows |-> <<>>, table_type |-> "GENERIC", col_count |-> 0, alignments |-> <<>>]
TableIdle == data_lines = <<>> /\ table = Table0
ParserIdle ==
    /\ i = 0 /\ elements = <<>> /\ in_references = FALSE /\ start_idx = 0
    /\ latex_lines = <<>> /\ table_lines = <<>> /\ bq_lines = <<>>
    /\ combined = <<>> /\ idx = 0
\* DocumentMetadata()
DocumentMetadata ==
    [title |-> <<"IB Report">>, subtitle |-> <<>>,
     company |-> <<"Korea Development Bank">>, ticker |-> <<>>,
     sector |-> <<"SECTOR">>, analyst |-> <<"DCM Team 1">>, extra |-> <<>>]
FrontIdle ==
    /\ frontmatter_lines = <<>> /\ content_start_idx = 0 /\ parsed_data = <<>>
    /\ metadata = DocumentMetadata /\ remaining = <<>> /\ exception = "None"
\* CleanerConfig()
CleanerConfig ==
    [activation_mode |-> "off", cite_mode |-> "footnote", drop_unknown_markers |-> FALSE]
\* CleanerReport()
CleanerReport ==
    [activation_mode |-> "off", markers_detected |-> FALSE, applied |-> FALSE,
     was_modified |-> FALSE, original_size |-> 0, cleaned_size |-> 0,
     cite_markers |-> 0, entity_markers |-> 0, image_group_markers |-> 0,
     unknown_markers |-> 0, footnotes_emitted |-> 0, leftover_pua_removed |-> 0]
StructureIdle == matches = <<>>
RenderIdle == output_parts = <<>>
CleanerIdle == config = CleanerConfig /\ footnotes = <<>> /\ report = CleanerReport
NonTextIdle ==
    /\ lines = <<>> /\ warnings = <<>> /\ TableIdle /\ ParserIdle /\ FrontIdle
    /\ CleanerIdle /\ StructureIdle /\ RenderIdle

\* ------------------------------------------------------------------------
\* Bounds of the model
\* ------------------------------------------------------------------------
MaxLen == 5

\* ------------------------------------------------------------------------
\* Sequences
\* ------------------------------------------------------------------------
SeqsUpTo(S, n) == UNION {[1..k -> S] : k \in 0..n}

Min(S) == CHOOSE q \in S : \A r \in S : q <= r

\* smallest index >= from holding token c, Len(s)+1 when there is none
FirstIndex(s, from, c) ==
    LET S == {q \in from..Len(s) : s[q] = c}
    IN  IF S = {} THEN Len(s) + 1 ELSE Min(S)

RECURSIVE Flatten(_)
Flatten(ss) ==
    IF Len(ss) = 0 THEN <<>>
    ELSE IF Len(ss) = 1 THEN ss[1]
    ELSE LET m == Len(ss) \div 2
         IN  Flatten(SubSeq(ss, 1, m)) \o Flatten(SubSeq(ss, m + 1, Len(ss)))

\* the element of a set of one element
The(S) == CHOOSE x \in S : TRUE

\* str.replace(old, new) for a one-token old
Replace(s, old, new) ==
    Flatten([k \in 1..Len(s) |-> IF s[k] = old THEN new ELSE <<s[k]>>])

\* ------------------------------------------------------------------------
\* Span protectors (md_formatter.py)
\* ------------------------------------------------------------------------
BLOCK_PLACEHOLDER(ix) == "__LATEX_BLOCK_" \o ToString(ix) \o "__"
INLINE_PLACEHOLDER(ix) == "__LATEX_INLINE_" \o ToString(ix) \o "__"
PLACEHOLDER(ix) == "__BOLD_" \o ToString(ix) \o "__"

\* r"\$\$[^$]+?\$\$" and r"\*\*[^*]+?\*\*" at position p: the last index of
\* the match, 0 when there is none.  The content cannot hold the delimiter,
\* so it ends at the first delimiter after p+1.
DelimSpanEnd(s, p, d) ==
    IF p + 1 <= Len(s) /\ s[p] = d /\ s[p + 1] = d
    THEN LET q == FirstIndex(s, p + 2, d)
         IN  IF q >= p + 3 /\ q + 1 <= Len(s) /\ s[q + 1] = d THEN q + 1 ELSE 0
    ELSE 0

\* r"(?<!\$)\$(?!\$)(.+?)(?<!\$)\$(?!\$)" at position p: the last index of
\* the match, 0 when there is none.  "." does not match a line break; the
\* content is the shortest that lets the closing "$" match.
InlineSpanEnd(s, p) ==
    IF /\ s[p] = "$"
       /\ (p = 1 \/ s[p - 1] # "$")
       /\ p + 1 <= Len(s) /\ s[p + 1] # "$"
    THEN LET C == {q \in (p + 2)..Len(s) :
                     /\ s[q] = "$" /\ s[q - 1] # "$"
                     /\ (q = Len(s) \/ s[q + 1] # "$")
                     /\ \A k \in (p + 1)..(q - 1) : s[k] # "\n"}
         IN  IF C = {} THEN 0 ELSE Min(C)
    ELSE 0

SpanEnd(kind, s, p) ==
    CASE kind = "block" -> DelimSpanEnd(s, p, "$")
      [] kind = "inline" -> InlineSpanEnd(s, p)
      [] kind = "bold" -> DelimSpanEnd(s, p, "*")

PlaceholderOf(kind, ix) ==
    CASE kind = "block" -> BLOCK_PLACEHOLDER(ix)
      [] kind = "inline" -> INLINE_PLACEHOLDER(ix)
      [] kind = "bold" -> PLACEHOLDER(ix)

\* re.sub(pattern, replacer, text): leftmost non-overlapping matches, each
\* appended to the store and replaced by the placeholder of its index
RECURSIVE ProtectScan(_, _, _, _, _)
ProtectScan(kind, s, p, out, store) ==
    IF p > Len(s) THEN [text |-> out, store |-> store]
    ELSE LET e == SpanEnd(kind, s, p)
         IN  IF e > 0
             THEN ProtectScan(kind, s, e + 1,
                              Append(out, PlaceholderOf(kind, Len(store))),
                              Append(store, SubSeq(s, p, e)))
             ELSE ProtectScan(kind, s, p + 1, Append(out, s[p]), store)

_protect_block(s, store) == ProtectScan("block", s, 1, <<>>, store)
_protect_inline(s, store) == ProtectScan("inline", s, 1, <<>>, store)
BoldProtector_protect(s, store) == ProtectScan("bold", s, 1, <<>>, store)

\* for ix, item in enumerate(store): text = text.replace(placeholder, item)
RECURSIVE RestoreFrom(_, _, _, _)
RestoreFrom(kind, s, store, ix) ==
    IF ix >= Len(store) THEN s
    ELSE LET item == store[ix + 1]
             new == IF kind = "block"
                    THEN <<"\n", "\n">> \o item \o <<"\n", "\n">>
                    ELSE item
         IN  RestoreFrom(kind, Replace(s, PlaceholderOf(kind, ix), new),
                         store, ix + 1)

LaTeXProtector_restore(s, block_store, inline_store) ==
    RestoreFrom("inline", RestoreFrom("block", s, block_store, 0), inline_store, 0)

BoldProtector_restore(s, store) == RestoreFrom("bold", s, store, 0)

\* Input tokens of the protector runs: the delimiters, a letter, a line
\* break, and two literal occurrences of placeholder-shaped text.
ProtectAlphabet == {"$", "*", "a", "\n", "__BOLD_0__", "__LATEX_BLOCK_0__"}

InitProtect ==
    /\ pc = "input"
    /\ text \in SeqsUpTo(ProtectAlphabet, MaxLen)
    /\ result = text
    /\ _block_store = <<>> /\ _inline_store = <<>> /\ _store = <<>>
    /\ runs = <<>> /\ outputs = <<>> /\ frontmatter = <<>>
    /\ NonTextIdle

\* LaTeXProtector.protect on a fresh protector
LaTeXProtect ==
    /\ pc = "input"
    /\ LET b == _protect_block(result, _block_store)
           n == _protect_inline(b.text, _inline_store)
       IN  /\ result' = n.text
           /\ _block_store' = b.store
           /\ _inline_store' = n.store
    /\ pc' = "latex_protected"
    /\ UNCHANGED <<text, _store, runs, outputs, frontmatter, nonTextVars>>

\* LaTeXProtector.restore
LaTeXRestore ==
    /\ pc = "latex_protected"
    /\ result' = LaTeXProtector_restore(result, _block_store, _inline_store)
    /\ pc' = "latex_restored"
    /\ UNCHANGED <<text, _block_store, _inline_store, _store, runs, outputs,
                 frontmatter, nonTextVars>>

\* BoldProtector.protect on a fresh protector
BoldProtect ==
    /\ pc = "input"
    /\ LET b == BoldProtector_protect(result, _store)
       IN  result' = b.text /\ _store' = b.store
    /\ pc' = "bold_protected"
    /\ UNCHANGED <<text, _block_store, _inline_store, runs, outputs, frontmatter, nonTextVars>>

\* BoldProtector.restore
BoldRestore ==
    /\ pc = "bold_protected"
    /\ result' = BoldProtector_restore(result, _store)
    /\ pc' = "bold_restored"
    /\ UNCHANGED <<text, _block_store, _inline_store, _store, runs, outputs,
                 frontmatter, nonTextVars>>

NextProtect == LaTeXProtect \/ LaTeXRestore \/ BoldProtect \/ BoldRestore

SpecProtect == InitProtect /\ [][NextProtect]_vars

\* ------------------------------------------------------------------------
\* Inline run parser (md_parser.py, TextParser)
\* ------------------------------------------------------------------------
IsSpace(c) == c \in {" ", "\n", "\t"}

\* str.strip()
Strip(s) ==
    LET K == {k \in 1..Len(s) : ~IsSpace(s[k])}
    IN  IF K = {} THEN <<>>
        ELSE SubSeq(s, Min(K), CHOOSE k \in K : \A r \in K : r <= k)

\* whether the tokens of old stand at position p of s
MatchesAt(s, p, old) ==
    /\ p + Len(old) - 1 <= Len(s)
    /\ \A k \in 1..Len(old) : s[p + k - 1] = old[k]

\* str.replace(old, new) for a non-empty token sequence old
RECURSIVE ReplaceSeq(_, _, _, _)
ReplaceSeq(s, p, old, new) ==
    IF p > Len(s) THEN <<>>
    ELSE IF MatchesAt(s, p, old)
         THEN new \o ReplaceSeq(s, p + Len(old), old, new)
         ELSE <<s[p]>> \o ReplaceSeq(s, p + 1, old, new)

\* the characters _ESCAPE_RE unescapes
EscapeSet == {"~", ".", "*", "\"", "'", "(", ")", "[", "]", "{", "}", "|", "_", "-"}

\* _ESCAPE_RE.sub(r"\1", text): a backslash before a character of EscapeSet
\* is dropped
RECURSIVE Unescape(_, _)
Unescape(s, p) ==
    IF p > Len(s) THEN <<>>
    ELSE IF s[p] = "\\" /\ p + 1 <= Len(s) /\ s[p + 1] \in EscapeSet
         THEN <<s[p + 1]>> \o Unescape(s, p + 2)
         ELSE <<s[p]>> \o Unescape(s, p + 1)

cleanup_text(s) == Strip(Unescape(s, 1))

\* _BOLD_SPLIT_RE r"(\*\*.*?\*\*)" at position p: the last index of the match,
\* 0 when there is none
BoldSplitEnd(s, p) ==
    IF p + 1 <= Len(s) /\ s[p] = "*" /\ s[p + 1] = "*"
    THEN LET C == {q \in (p + 2)..(Len(s) - 1) :
                     /\ s[q] = "*" /\ s[q + 1] = "*"
                     /\ \A k \in (p + 2)..(q - 1) : s[k] # "\n"}
         IN  IF C = {} THEN 0 ELSE Min(C) + 1
    ELSE 0

\* _BOLD_SPLIT_RE.split(segment): the parts between matches and the matches,
\* in order (empty parts included)
RECURSIVE BoldSplit(_, _, _)
BoldSplit(s, p, cur) ==
    IF p > Len(s) THEN <<cur>>
    ELSE LET e == BoldSplitEnd(s, p)
         IN  IF e > 0
             THEN <<cur, SubSeq(s, p, e)>> \o BoldSplit(s, e + 1, <<>>)
             ELSE BoldSplit(s, p + 1, Append(cur, s[p]))

TextRun(t, b, l) ==
    [text |-> t, bold |-> b, italic |-> FALSE, superscript |-> FALSE, is_latex |-> l]

\* the runs of one part of the bold split
PartRuns(part) ==
    IF part = <<>> THEN <<>>
    ELSE IF /\ Len(part) > 4
            /\ part[1] = "*" /\ part[2] = "*"
            /\ part[Len(part) - 1] = "*" /\ part[Len(part)] = "*"
         THEN LET content == cleanup_text(SubSeq(part, 3, Len(part) - 2))
              IN  IF content # <<>> THEN <<TextRun(content, TRUE, FALSE)>> ELSE <<>>
         ELSE LET cleaned == cleanup_text(part)
              IN  IF cleaned # <<>> THEN <<TextRun(cleaned, FALSE, FALSE)>> ELSE <<>>

\* parse_runs_plain: the bold split of the text with escaped ** normalised
parse_runs_plain(s) ==
    LET parts == BoldSplit(ReplaceSeq(s, 1, <<"\\", "*", "\\", "*">>, <<"*", "*">>), 1, <<>>)
    IN  Flatten([k \in 1..Len(parts) |-> PartRuns(parts[k])])

\* the runs of a non-LaTeX segment (phase 2 of parse_runs)
SegmentRuns(seg) ==
    LET parts == BoldSplit(seg, 1, <<>>)
    IN  Flatten([k \in 1..Len(parts) |-> PartRuns(parts[k])])

\* _split_on_inline_latex followed by the loop of parse_runs over the
\* segments: before is the text since the last inline-LaTeX match
RECURSIVE LatexSplitRuns(_, _, _)
LatexSplitRuns(s, p, last_end) ==
    IF p > Len(s)
    THEN SegmentRuns(SubSeq(s, last_end + 1, Len(s)))
    ELSE LET e == InlineSpanEnd(s, p)
         IN  IF e > 0
             THEN SegmentRuns(SubSeq(s, last_end + 1, p - 1))
                  \o <<TextRun(SubSeq(s, p + 1, e - 1), FALSE, TRUE)>>
                  \o LatexSplitRuns(s, e + 1, e)
             ELSE LatexSplitRuns(s, p + 1, last_end)

parse_runs(s) ==
    LatexSplitRuns(ReplaceSeq(s, 1, <<"\\", "*", "\\", "*">>, <<"*", "*">>), 1, 0)

\* Input tokens of the run parser
RunsAlphabet == {"*", "$", " ", "a", "\\"}

InitRuns ==
    /\ pc = "input"
    /\ text \in SeqsUpTo(RunsAlphabet, MaxLen)
    /\ result = <<>>
    /\ _block_store = <<>> /\ _inline_store = <<>> /\ _store = <<>>
    /\ runs = <<>> /\ outputs = <<>> /\ frontmatter = <<>>
    /\ NonTextIdle

\* TextParser.parse_runs(text)
ParseRuns ==
    /\ pc = "input"
    /\ runs' = parse_runs(text)
    /\ pc' = "parsed"
    /\ UNCHANGED <<text, result, _block_store, _inline_store, _store, outputs,
                 frontmatter, nonTextVars>>

\* TextParser.parse_runs_plain(text)
ParseRunsPlain ==
    /\ pc = "input"
    /\ runs' = parse_runs_plain(text)
    /\ pc' = "parsed_plain"
    /\ UNCHANGED <<text, result, _block_store, _inline_store, _store, outputs,
                 frontmatter, nonTextVars>>

NextRuns == ParseRuns \/ ParseRunsPlain

SpecRuns == InitRuns /\ [][NextRuns]_vars

\* "".join(run.text for run in runs)
JoinRuns(rs) == Flatten([k \in 1..Len(rs) |-> rs[k].text])

NotDelimiter(c) == c \notin {"*", "$"}

\* C2: the run texts of parse_runs(text), joined in order, are the text with
\* its formatting delimiters removed and its escapes resolved; nothing else,
\* and in particular no whitespace, is lost or invented.  (Both sides are
\* compared with every "*" and "$" left out.)
C2_RunConcatenation ==
    pc = "parsed" =>
        SelectSeq(JoinRuns(runs), NotDelimiter)
            = SelectSeq(Unescape(text, 1), NotDelimiter)

\* ------------------------------------------------------------------------
\* Table parser (md_parser.py, TableParser)
\* ------------------------------------------------------------------------
MaxTableLines == 3

\* str.split(sep) for a one-token sep: the pieces between separators
RECURSIVE Split(_, _, _, _)
Split(s, p, sep, cur) ==
    IF p > Len(s) THEN <<cur>>
    ELSE IF s[p] = sep THEN <<cur>> \o Split(s, p + 1, sep, <<>>)
         ELSE Split(s, p + 1, sep, Append(cur, s[p]))

\* [c.strip() for c in line.split("|") if c.strip()]
_split_row(line) ==
    LET pieces == Split(line, 1, "|", <<>>)
        stripped == [k \in 1..Len(pieces) |-> Strip(pieces[k])]
    IN  SelectSeq(stripped, LAMBDA c : c # <<>>)

\* set(l.strip()).issubset({"|", "-", " ", ":"})
IsSeparatorLine(l) == \A k \in 1..Len(Strip(l)) : Strip(l)[k] \in {"|", "-", " ", ":"}

\* the alignment of one separator cell
CellAlignment(cell) ==
    IF cell[1] = ":" /\ cell[Len(cell)] = ":" THEN "center"
    ELSE IF cell[Len(cell)] = ":" THEN "right" ELSE "left"

\* _parse_alignments: read from the first separator line that holds a "-"
_parse_alignments(ls) ==
    LET K == {k \in 1..Len(ls) :
                (\E j \in 1..Len(ls[k]) : ls[k][j] = "-") /\ IsSeparatorLine(ls[k])}
    IN  IF K = {} THEN <<>>
        ELSE LET cells == _split_row(ls[Min(K)])
             IN  [j \in 1..Len(cells) |-> CellAlignment(cells[j])]

\* str.lower() on the tokens that have capitals
Lower(c) ==
    CASE c = "Revenue" -> "revenue"
      [] c = "Risk" -> "risk"
      [] c = "Impact" -> "impact"
      [] c = "BEP" -> "bep"
      [] c = "Upside" -> "upside"
      [] c = "High" -> "high"
      [] c = "Base" -> "base"
      [] c = "References" -> "references"
      [] c = "Sources" -> "sources"
      [] c = "Title" -> "title"
      [] c = "CITE" -> "cite"
      [] OTHER -> c

\* any(kw in text.lower() for kw in keywords), for keywords that the text
\* holds as whole tokens.  A Korean word of the source is written as the
\* token "ko:" followed by its romanisation.
ContainsAny(s, keywords) == \E k \in 1..Len(s) : Lower(s[k]) \in keywords

BEP_KEYWORDS ==
    {"bep", "sensitivity", "cmr", "contribution margin", "fixed cost",
     "ko:sonikbungi", "ko:mingamdo", "ko:gojeongbi", "ko:byeondongbi"}
RISK_KEYWORDS ==
    {"risk", "impact", "probability", "likelihood", "ko:riseukeu", "ko:wiheom", "ko:yeonghyang", "ko:hwangnyul"}
FINANCIAL_KEYWORDS ==
    {"revenue", "income", "ebitda", "profit", "margin", "expense",
     "ko:maechul", "ko:suik", "ko:iik", "ko:sonik", "ko:suniik", "ko:yeongeop", "ko:biyong"}
YEAR_INDICATORS ==
    {"2024", "2025", "2026", "yoy", "cagr", "a)", "b)", "e)", "ko:nyeondo", "ko:yeondo", "ko:siljeok"}
UPSIDE_DOWNSIDE_KEYWORDS == {"upside", "downside", "ko:sangseung", "ko:harak", "ko:yoin"}

\* _detect_type with the risk keywords looked for before the BEP keywords
_detect_type_RiskFirst(header_cells) ==
    LET header_text == Flatten(header_cells)
    IN  IF ContainsAny(header_text, UPSIDE_DOWNSIDE_KEYWORDS) THEN "UPSIDE_DOWNSIDE"
        ELSE IF ContainsAny(header_text, RISK_KEYWORDS) THEN "RISK_MATRIX"
        ELSE IF ContainsAny(header_text, BEP_KEYWORDS) THEN "BEP_SENSITIVITY"
        ELSE IF \/ ContainsAny(header_text, FINANCIAL_KEYWORDS)
                \/ ContainsAny(header_text, YEAR_INDICATORS) THEN "FINANCIAL"
        ELSE "GENERIC"

\* _detect_type on the header cells (header_text is their join, lowercased)
_detect_type(header_cells) ==
    LET header_text == Flatten(header_cells)
    IN  IF ContainsAny(header_text, UPSIDE_DOWNSIDE_KEYWORDS) THEN "UPSIDE_DOWNSIDE"
        ELSE IF ContainsAny(header_text, BEP_KEYWORDS) THEN "BEP_SENSITIVITY"
        ELSE IF ContainsAny(header_text, RISK_KEYWORDS) THEN "RISK_MATRIX"
        ELSE IF \/ ContainsAny(header_text, FINANCIAL_KEYWORDS)
                \/ ContainsAny(header_text, YEAR_INDICATORS) THEN "FINANCIAL"
        ELSE "GENERIC"

\* any(char.isdigit() for char in text)
HasDigit(s) ==
    \E k \in 1..Len(s) :
        s[k] \in {"0", "1", "2", "3", "4", "5", "6", "7", "8", "9", "2024", "2025", "2026"}

\* the risk level read from a cell of an impact/probability column
RiskLevel(s) ==
    IF ContainsAny(s, {"high", "ko:nop"}) THEN "high"
    ELSE IF ContainsAny(s, {"medium", "moderate", "ko:jung"}) THEN "medium"
    ELSE IF ContainsAny(s, {"low", "ko:nat"}) THEN "low"
    ELSE "none"

\* _parse_cell (col_idx and row_idx count from 0 as in the source)
_parse_cell(s, is_header, col_idx, row_idx, total_rows, table_type, header_cells) ==
    [content |-> s,
     runs |-> parse_runs_plain(s),
     alignment |-> "left",
     is_header |-> is_header,
     is_numeric |-> HasDigit(s) /\ col_idx > 0,
     is_negative |->
        \/ (s # <<>> /\ s[1] = "(" /\ s[Len(s)] = ")" /\ HasDigit(s))
        \/ (s # <<>> /\ s[1] = "-" /\ HasDigit(s)),
     is_base_case |->
        /\ table_type = "BEP_SENSITIVITY"
        /\ \/ ContainsAny(s, {"base", "ko:gijun"})
           \/ /\ row_idx = total_rows \div 2
              /\ col_idx = Len(header_cells) \div 2
              /\ row_idx > 0,
     risk_level |->
        IF /\ table_type = "RISK_MATRIX"
           /\ col_idx < Len(header_cells)
           /\ ContainsAny(header_cells[col_idx + 1], {"impact", "probability", "ko:yeonghyang", "ko:hwangnyul"})
        THEN RiskLevel(s) ELSE "none"]

\* a row loop that leaves short rows short
PadCells_NoPad(cells, col_count) == cells

\* while len(cells) < col_count: cells.append("")
PadCells(cells, col_count) ==
    IF Len(cells) < col_count
    THEN cells \o [k \in 1..(col_count - Len(cells)) |-> <<>>]
    ELSE cells

\* the warning logged for a row that has more cells than the header row
TruncationWarning(row_idx, cells, col_count) ==
    IF Len(cells) > col_count
    THEN <<[row |-> row_idx, columns |-> Len(cells), expected |-> col_count,
            dropped |-> SubSeq(cells, col_count + 1, Len(cells))]>>
    ELSE <<>>

\* cells[:col_count]
TruncateCells(cells, col_count) ==
    IF Len(cells) > col_count THEN SubSeq(cells, 1, col_count) ELSE cells

\* Lines a table block is made of
TableLinePool ==
    {<<"|", " ", "a", " ", "|", " ", "b", " ", "|">>,
     <<"|", "-", "|", ":", "-", ":", "|">>,
     <<"|", " ", "a", " ", "|">>,
     <<"|", "a", "|", "b", "|", "c", "|">>,
     <<"|", "a", "|", " ", "|", "b", "|">>,
     <<"|", "\t", "|">>,
     <<"|", "Risk", "|", "Impact", "|">>,
     <<"|", "1", "|", "-", "2", "|", "High", "|">>,
     <<"|", "Risk", "|", "Revenue", "|">>,
     <<"|", "Upside", "|", "BEP", "|">>,
     <<"|", "BEP", "|", "Risk", "|", "2024", "|">>,
     <<"|", "a", "|", "2024", "|">>}

InitTable ==
    /\ pc = "input"
    /\ lines \in SeqsUpTo(TableLinePool, MaxTableLines)
    /\ warnings = <<>>
    /\ TableIdle /\ TextIdle /\ ParserIdle /\ FrontIdle /\ CleanerIdle /\ StructureIdle /\ RenderIdle

\* TableParser.parse up to the row loop: data lines, column count,
\* alignments and table type
TableParse ==
    /\ pc = "input"
    /\ LET dl == SelectSeq(lines, LAMBDA l : ~IsSeparatorLine(l))
       IN  /\ data_lines' = dl
           /\ IF dl = <<>>
              THEN table' = Table0 /\ pc' = "done"
              ELSE LET alignments == _parse_alignments(lines)
                       first_row_cells == _split_row(dl[1])
                       n == Len(first_row_cells)
                   IN  /\ table' = [rows |-> <<>>,
                                    table_type |-> _detect_type(first_row_cells),
                                    col_count |-> n,
                                    alignments |->
                                        IF Len(alignments) = n THEN alignments
                                        ELSE [k \in 1..n |-> "left"]]
                       /\ pc' = "rows"
    /\ UNCHANGED <<textVars, frontVars, cleanerVars, structureVars, renderVars, lines, warnings, parserVars>>

\* one pass of "for i, line in enumerate(data_lines)"; the table is returned
\* after the last row
TableRow ==
    /\ pc = "rows"
    /\ LET row_idx == Len(table.rows)
           split == _split_row(data_lines[row_idx + 1])
           padded == PadCells(split, table.col_count)
           cells == TruncateCells(padded, table.col_count)
           first_row_cells == _split_row(data_lines[1])
           row == [is_header |-> row_idx = 0,
                   cells |-> [j \in 1..Len(cells) |->
                       [_parse_cell(cells[j], row_idx = 0, j - 1, row_idx, Len(data_lines),
                                    table.table_type, first_row_cells)
                        EXCEPT !.alignment = IF j - 1 < Len(table.alignments)
                                             THEN table.alignments[j]
                                             ELSE "left"]]]
       IN  /\ warnings' = warnings \o TruncationWarning(row_idx, padded, table.col_count)
           /\ table' = [table EXCEPT !.rows = Append(@, row)]
           /\ pc' = IF row_idx + 1 = Len(data_lines) THEN "done" ELSE "rows"
    /\ UNCHANGED <<textVars, frontVars, cleanerVars, structureVars, renderVars, lines, data_lines, parserVars>>

NextTable == TableParse \/ TableRow

SpecTable == InitTable /\ [][NextTable]_vars

\* the contents of the cells of a row
RowContents(row) == [j \in 1..Len(row.cells) |-> row.cells[j].content]

\* C3: every row of the parsed table has exactly col_count cells, col_count
\* being the number of cells of the first data row; a shorter row is padded at
\* its end with empty cells, a longer row is cut to col_count and its dropped
\* cells are reported in a warning.
C3_TableColumns ==
    (pc \in {"rows", "done"} /\ data_lines # <<>>) =>
        /\ table.col_count = Len(_split_row(data_lines[1]))
        /\ \A r \in 1..Len(table.rows) :
              LET given == _split_row(data_lines[r])
                  have == RowContents(table.rows[r])
              IN  /\ Len(have) = table.col_count
                  /\ \A j \in 1..table.col_count :
                        have[j] = IF j <= Len(given) THEN given[j] ELSE <<>>
                  /\ Len(given) > table.col_count =>
                        \E w \in 1..Len(warnings) :
                            /\ warnings[w].row = r - 1
                            /\ warnings[w].dropped
                                 = SubSeq(given, table.col_count + 1, Len(given))
        /\ pc = "done" => Len(table.rows) = Len(data_lines)

\* a table with a padded row and a truncated row has been parsed
C3_Witness ==
    /\ pc = "done"
    /\ \E r \in 1..Len(data_lines) : Len(_split_row(data_lines[r])) < table.col_count
    /\ \E r \in 1..Len(data_lines) : Len(_split_row(data_lines[r])) > table.col_count
    /\ warnings # <<>>

\* ------------------------------------------------------------------------
\* Colon normaliser and light formatting (md_formatter.py)
\* ------------------------------------------------------------------------
MaxBody == 4

\* if line_count > 20: the light path of format_markdown
LIGHT_LINE_COUNT == 20

\* the [start, end) spans of _BOLD_SPAN_RE.finditer(text), as the set of the
\* indices they cover
RECURSIVE BoldSpanIndices(_, _)
BoldSpanIndices(s, p) ==
    IF p > Len(s) THEN {}
    ELSE LET e == DelimSpanEnd(s, p, "*")
         IN  IF e > 0 THEN (p..e) \cup BoldSpanIndices(s, e + 1)
             ELSE BoldSpanIndices(s, p + 1)

\* str.isdigit() of one character
IsDigit(c) == c \in {"0", "1", "2", "3", "4", "5", "6", "7", "8", "9"}

\* normalize_colon_spacing_global without the exception for a colon between
\* two digits
normalize_colon_spacing_global_NoRatio(s) ==
    LET bold == BoldSpanIndices(s, 1)
        Out(ix) ==
            IF s[ix] # ":" \/ ix = Len(s) \/ IsSpace(s[ix + 1]) THEN <<s[ix]>>
            ELSE IF ix \in bold THEN <<":">>
            ELSE IF s[ix + 1] \in {"/", "\\"} THEN <<":">>
            ELSE IF (ix > 1 /\ s[ix - 1] = ":") \/ s[ix + 1] = ":" THEN <<":">>
            ELSE <<":", " ">>
    IN  Flatten([ix \in 1..Len(s) |-> Out(ix)])

\* ColonLabelDetector.normalize_colon_spacing_global:
\* re.sub(r":(?=\S)", replacer, text)
normalize_colon_spacing_global(s) ==
    LET bold == BoldSpanIndices(s, 1)
        Out(ix) ==
            IF s[ix] # ":" \/ ix = Len(s) \/ IsSpace(s[ix + 1]) THEN <<s[ix]>>
            ELSE IF ix \in bold THEN <<":">>
            ELSE IF s[ix + 1] \in {"/", "\\"} THEN <<":">>
            ELSE IF ix > 1 /\ IsDigit(s[ix - 1]) /\ IsDigit(s[ix + 1]) THEN <<":">>
            ELSE IF (ix > 1 /\ s[ix - 1] = ":") \/ s[ix + 1] = ":" THEN <<":">>
            ELSE <<":", " ">>
    IN  Flatten([ix \in 1..Len(s) |-> Out(ix)])

\* ColonLabelDetector._LABELS, each label a sequence of words
_LABELS ==
    << <<"ko:gajeong">>,
       <<"ko:il", " ", "ko:pyeonggyun", " ", "ko:maechul">>,
       <<"ko:boyu", " ", "ko:chaegwon", " ", "ko:janaek">>,
       <<"ko:choedae", " ", "ko:jodal", " ", "ko:ganeungaek">>,
       <<"ko:teurigeo", " ", "ko:yogeon">>,
       <<"ko:baldong", " ", "ko:hyogwa">>,
       <<"ko:hwakjeongiljabu", " ", "ko:chaegwonyangdo", " ", "ko:seungnak">>,
       <<"ko:gyejwa", " ", "ko:byeongyeong", " ", "ko:geumji", " ", "ko:hwagyak">>,
       <<"ko:gyejwa", " ", "ko:bulli">>,
       <<"ko:inchul", " ", "ko:tongje">>,
       <<"API", " ", "ko:giban", " ", "ko:moniteoring">>,
       <<"ko:dongjeok", " ", "ko:jeongnimnyul", " ", "ko:jojeong">>,
       <<"ko:huiseokhwa", " ", "ko:junbigeum">>,
       <<"ko:gita", " ", "ko:junbigeum">>,
       <<"ko:chong", " ", "ko:piryo", " ", "ko:sinyongbogangnyul">>,
       <<"ko:gujo">>,
       <<"ko:jeokjeongseong">>,
       <<"ko:silhaeng", " ", "ko:jeollyak">> >>

\* ColonLabelDetector._SPACING_LABELS
_SPACING_LABELS ==
    << <<"ko:jakseongil">>,
       <<"ko:bogoseo", " ", "ko:jakseongil">>,
       <<"ko:susin">>,
       <<"ko:juje">>,
       <<"ko:jakseongja">> >> \o _LABELS

\* the end of the whitespace run that starts at p (\s*)
RECURSIVE SkipSpace(_, _)
SkipSpace(s, p) == IF p <= Len(s) /\ IsSpace(s[p]) THEN SkipSpace(s, p + 1) ELSE p

\* re.sub(rf"({label}):\s*", replacer, result) for one label: each match
\* (the label, the colon and the whitespace after it) becomes "label: ",
\* except where the match starts inside a bold span
NormalizeLabel(s, label, bold) ==
    LET pattern == Append(label, ":")
        starts == {q \in 1..Len(s) : MatchesAt(s, q, pattern)}
        MatchEnd(q) == SkipSpace(s, q + Len(pattern))
        Out(ix) ==
            IF ix \in starts
            THEN IF ix \in bold THEN SubSeq(s, ix, MatchEnd(ix) - 1)
                 ELSE label \o <<":", " ">>
            ELSE IF \E q \in starts : q < ix /\ ix < MatchEnd(q) THEN <<>>
            ELSE <<s[ix]>>
    IN  Flatten([ix \in 1..Len(s) |-> Out(ix)])

\* ColonLabelDetector.normalize_colon_spacing: the labels in order, the bold
\* spans found again before each
RECURSIVE NormalizeLabelsFrom(_, _)
NormalizeLabelsFrom(s, k) ==
    IF Len(s) = 0 \/ k > Len(_SPACING_LABELS) THEN s
    ELSE NormalizeLabelsFrom(
             NormalizeLabel(s, _SPACING_LABELS[k], BoldSpanIndices(s, 1)), k + 1)

normalize_colon_spacing(s) == NormalizeLabelsFrom(s, 1)

\* the callout words of _light_format
LIGHT_CALLOUTS ==
    {"ko:sisajeom", "ko:chamgo", "ko:juui", "ko:gyeollon", "ko:yoyak", "ko:haeksim"}

\* re.sub(r"\[(...)\]", r"\n\n> [\1]", text) for the callout words given
InsertCallouts(s, words) ==
    LET IsCallout(q) ==
            q >= 1 /\ q + 2 <= Len(s) /\ s[q] = "[" /\ s[q + 1] \in words /\ s[q + 2] = "]"
        Out(ix) ==
            IF IsCallout(ix) THEN <<"\n", "\n", ">", " ", "[", s[ix + 1], "]">>
            ELSE IF IsCallout(ix - 1) \/ IsCallout(ix - 2) THEN <<>>
            ELSE <<s[ix]>>
    IN  Flatten([ix \in 1..Len(s) |-> Out(ix)])

\* re.sub(r"\n{3,}", "\n\n", text): of a run of line breaks the first two stay
CollapseBlankLines(s) ==
    LET Third(ix) ==
            ix >= 3 /\ s[ix] = "\n" /\ s[ix - 1] = "\n" /\ s[ix - 2] = "\n"
    IN  Flatten([ix \in 1..Len(s) |-> IF Third(ix) THEN <<>> ELSE <<s[ix]>>])

_light_format(s) ==
    LET colons == normalize_colon_spacing(normalize_colon_spacing_global(s))
        callouts == InsertCallouts(colons, LIGHT_CALLOUTS)
    IN  Strip(CollapseBlankLines(callouts))

\* text.count("\n")
LineCount(s) == Cardinality({k \in 1..Len(s) : s[k] = "\n"})

\* LIGHT_LINE_COUNT + 1 one-letter lines, so that the text that follows is
\* formatted on the light path
LightPrefix == [k \in 1..(2 * (LIGHT_LINE_COUNT + 1)) |-> IF k % 2 = 1 THEN "x" ELSE "\n"]

LightAlphabet == {"\n", " ", ":", "a", "[", "]", "ko:sisajeom", "ko:gajeong"}

InitLight ==
    /\ pc = "input"
    /\ \E body \in SeqsUpTo(LightAlphabet, MaxBody) : text = LightPrefix \o body
    /\ result = text
    /\ _block_store = <<>> /\ _inline_store = <<>> /\ _store = <<>>
    /\ runs = <<>> /\ outputs = <<>> /\ frontmatter = <<>>
    /\ NonTextIdle

\* format_markdown(result) without a cleaner, for a text of more than 20
\* line breaks: the light path
FormatMarkdownLight ==
    /\ pc \in {"input", "formatted"}
    /\ LineCount(result) > LIGHT_LINE_COUNT
    /\ result' = _light_format(result)
    /\ outputs' = Append(outputs, result')
    /\ pc' = IF pc = "input" THEN "formatted" ELSE "formatted_twice"
    /\ UNCHANGED <<text, _block_store, _inline_store, _store, runs, frontmatter, nonTextVars>>

NextLight == FormatMarkdownLight

SpecLight == InitLight /\ [][NextLight]_vars

\* C4: for a text of more than 20 line breaks format_markdown is idempotent:
\* format_markdown(format_markdown(text)) == format_markdown(text).
C4_LightIdempotent ==
    pc = "formatted_twice" => outputs[2] = outputs[1]

\* ------------------------------------------------------------------------
\* Element parser (md_parser.py, MarkdownParser._parse_elements)
\* ------------------------------------------------------------------------
MaxLines == 3

\* Base64ImageParser.parse_multiline: max_lookahead = 50
max_lookahead == 50

\* the "data:image/<type>;base64," prefix of an embedded image, one token
DATA_URI == "data:image/png;base64,"

\* the one-character tokens that are neither letters, digits nor whitespace
Punctuation ==
    {"#", "-", "*", "$", "|", ">", "!", "[", "]", "(", ")", ".", "\\", ":",
     "/", "+", "=", "_", ",", ";", "~", "\"", "'", "{", "}", "^", DATA_URI}

\* [A-Za-z] and Hangul: a letter, or a word kept as one token
IsLetter(c) == ~IsSpace(c) /\ ~IsDigit(c) /\ c \notin Punctuation

\* \w
IsWordChar(c) == IsLetter(c) \/ IsDigit(c) \/ c = "_"

\* a text of 121 letters, one token
LONG_TEXT == "long text"

\* a text of 40 letters, one token
FORTY_LETTERS == "forty letters"

\* a date that no calendar holds, one token
INVALID_DATE == "2024-02-30"

\* the number of characters a token stands for
TokenWidth(c) ==
    CASE c = "references" -> 10
      [] c = "References" -> 10
      [] c = "sources" -> 7
      [] c = "Sources" -> 7
      [] c = DATA_URI -> 22
      [] c = "title" -> 5
      [] c = "Title" -> 5
      [] c = "date" -> 4
      [] c = INVALID_DATE -> 10
      [] c = LONG_TEXT -> 121
      [] c = FORTY_LETTERS -> 40
      [] c \in {"ko:jemok", "ko:seoron", "ko:bollon", "ko:juyo", "ko:gajeong",
                "ko:yogeon", "ko:maechul", "ko:susin", "ko:juje"} -> 2
      [] c \in {"ko:bunseogeul", "ko:ttaraseo", "ko:teurigeo", "ko:sisajeom",
                "ko:jakseongil", "ko:jakseongja", "ko:bogoseo", "API"} -> 3
      [] c \in {"ko:bogoseoneun", "DSCR", "NOTE"} -> 4
      [] c \in {"ko:jegonghamnida", "ko:naeyongimnida"} -> 5
      [] c = "WARNING" -> 7
      [] c \in {"cite", "CITE"} -> 4
      [] c \in {"entity", "widget"} -> 6
      [] c = "image_group" -> 11
      [] c = "Citations" -> 9
      [] c = "removed" -> 7
      [] c = "<!--" -> 4
      [] c = "-->" -> 3
      [] OTHER -> 1

\* len(s)
RECURSIVE CharCount(_)
CharCount(s) == IF s = <<>> THEN 0 ELSE TokenWidth(Head(s)) + CharCount(Tail(s))

\* str.rstrip()
RStrip(s) ==
    LET K == {k \in 1..Len(s) : ~IsSpace(s[k])}
    IN  IF K = {} THEN <<>> ELSE SubSeq(s, 1, CHOOSE k \in K : \A r \in K : r <= k)

\* sep.join(parts)
RECURSIVE Join(_, _)
Join(parts, sep) ==
    IF parts = <<>> THEN <<>>
    ELSE IF Len(parts) = 1 THEN parts[1]
    ELSE parts[1] \o <<sep>> \o Join(Tail(parts), sep)

\* the end of the run of digits that starts at p (\d+)
RECURSIVE SkipDigits(_, _)
SkipDigits(s, p) == IF p <= Len(s) /\ IsDigit(s[p]) THEN SkipDigits(s, p + 1) ELSE p

\* int(digits)
RECURSIVE DigitsValue(_)
DigitsValue(d) ==
    IF d = <<>> THEN 0
    ELSE 10 * DigitsValue(SubSeq(d, 1, Len(d) - 1))
         + (CHOOSE v \in 0..9 : ToString(v) = d[Len(d)])

\* the number of "#" a line starts with
RECURSIVE LeadingHashes(_)
LeadingHashes(s) ==
    IF s # <<>> /\ Head(s) = "#" THEN 1 + LeadingHashes(Tail(s)) ELSE 0

\* "no match" of a pattern whose group cannot be empty, and None
None == <<>>

\* H1_PATTERN .. H4_PATTERN, ^#{n}\s+(.+)$: group(1), or None
HeadingMatch(line, n) ==
    IF LeadingHashes(line) = n /\ Len(line) >= n + 2 /\ IsSpace(line[n + 1])
    THEN SubSeq(line, Min({SkipSpace(line, n + 1), Len(line)}), Len(line))
    ELSE None

\* NUMBERED_HEADING_PATTERN, ^\*\*\d+(\.|\\.)
NUMBERED_HEADING_PATTERN(line) ==
    /\ MatchesAt(line, 1, <<"*", "*">>)
    /\ LET p == SkipDigits(line, 3)
       IN  /\ p > 3 /\ p <= Len(line)
           /\ line[p] = "." \/ (line[p] = "\\" /\ p + 1 <= Len(line))

\* MarkdownParser._looks_like_heading
_looks_like_heading(line) ==
    \/ \E n \in 1..4 : HeadingMatch(line, n) # None
    \/ NUMBERED_HEADING_PATTERN(line)

\* MarkdownParser._REFERENCE_KEYWORDS
_REFERENCE_KEYWORDS ==
    {"works cited", "references", "sources", "citations", "ko:chamgomunheon", "ko:chulcheo"}

\* MarkdownParser._is_reference_header: the keywords are looked for in the
\* lower-cased line without its "#{1,4}\s+" prefix
_is_reference_header(line) ==
    LET stripped == Strip(line)
        n == LeadingHashes(stripped)
        cleaned == IF n \in 1..4 /\ n < Len(stripped) /\ IsSpace(stripped[n + 1])
                   THEN SubSeq(stripped, SkipSpace(stripped, n + 1), Len(stripped))
                   ELSE stripped
    IN  ContainsAny(cleaned, _REFERENCE_KEYWORDS)

\* FootnoteParser.REFERENCE_PATTERN, ^(\d+)[\\.]\s+(.+)$
REFERENCE_PATTERN(line) ==
    LET p == SkipDigits(line, 1)
    IN  /\ p > 1 /\ p + 2 <= Len(line)
        /\ line[p] \in {"\\", "."}
        /\ IsSpace(line[p + 1])

\* SEPARATOR_PATTERN, ^(---|## ---)$
SEPARATOR_PATTERN(line) ==
    line \in {<<"-", "-", "-">>, <<"#", "#", " ", "-", "-", "-">>}

\* LaTeXParser.is_block_start, ^\$\$\s*$ on the stripped line
is_block_start(line) == Strip(line) = <<"$", "$">>

\* LaTeXParser.is_block_single_line matches, ^\$\$(.+?)\$\$\s*$ on the
\* stripped line
IsBlockSingleLine(line) ==
    LET s == Strip(line)
    IN  /\ Len(s) >= 5
        /\ MatchesAt(s, 1, <<"$", "$">>)
        /\ MatchesAt(s, Len(s) - 1, <<"$", "$">>)

\* LaTeXParser.is_block_single_line: m.group(1).strip()
is_block_single_line(line) ==
    LET s == Strip(line) IN Strip(SubSeq(s, 3, Len(s) - 2))

\* a "$" that INLINE_RE can open or close a span with
LoneDollar(s, p) ==
    /\ s[p] = "$"
    /\ p = 1 \/ s[p - 1] \notin {"$", "\\"}
    /\ p = Len(s) \/ s[p + 1] # "$"

\* LaTeXParser.has_inline
has_inline(s) ==
    \E p \in 1..Len(s) : \E q \in (p + 2)..Len(s) : LoneDollar(s, p) /\ LoneDollar(s, q)

\* Base64ImageParser.DETECT_RE matched at position q
DetectAt(s, q) ==
    /\ MatchesAt(s, q, <<"!", "[">>)
    /\ LET r == FirstIndex(s, q + 2, "]")
       IN  MatchesAt(s, r, <<"]", "(", DATA_URI>>)

\* Base64ImageParser.is_base64_image
is_base64_image(line) == \E q \in 1..Len(line) : DetectAt(line, q)

\* the syllables a Korean sentence ends with
SENTENCE_ENDINGS ==
    {"ko:da", "ko:yo", "ko:eum", "ko:ham", "ko:im", "ko:doem", "ko:geot", "ko:su", "ko:jeom"}

\* the words of the model that are written in Hangul
HangulWords ==
    LIGHT_CALLOUTS \cup SENTENCE_ENDINGS \cup {"ko:chamgomunheon", "ko:chulcheo"}

\* [A-Za-z0-9+/=\s]
IsBase64Char(c) ==
    (IsLetter(c) /\ c \notin HangulWords) \/ IsDigit(c) \/ c \in {"+", "/", "="} \/ IsSpace(c)

\* Base64ImageParser.PATTERN matches the stripped line
Base64Pattern(line) ==
    LET s == Strip(line)
        data == SubSeq(s, FirstIndex(s, 3, "]") + 3, Len(s) - 1)
    IN  /\ DetectAt(s, 1)
        /\ s[Len(s)] = ")"
        /\ data # <<>>
        /\ \A k \in 1..Len(data) : IsBase64Char(data[k])

\* m.group(3).replace("\n", "").replace("\r", "").replace(" ", "")
Base64Data(line) ==
    LET s == Strip(line)
    IN  SelectSeq(SubSeq(s, FirstIndex(s, 3, "]") + 3, Len(s) - 1),
                  LAMBDA c : c \notin {"\n", "\r", " "})

\* Base64ImageParser.parse: the Image, or None
Base64ImageParser_parse(line) ==
    IF Base64Pattern(line) /\ CharCount(Base64Data(line)) >= 4
    THEN [alt_text |-> SubSeq(Strip(line), 3, FirstIndex(Strip(line), 3, "]") - 1),
          path |-> <<>>, base64_data |-> Base64Data(line), mime_type |-> "image/png"]
    ELSE None

\* what Base64ImageParser.parse logs for the line read at source line k
Base64ParseWarnings(line, k) ==
    IF Base64Pattern(line) /\ CharCount(Base64Data(line)) < 4
    THEN <<[event |-> "base64_too_short", first |-> k, last |-> k]>>
    ELSE <<>>

\* IMAGE_PATTERN, ^!\[(.*?)\]\((.*?)\)$: the position of the "](" that the
\* lazy groups stop at, 0 when the line is no image
ImageSplit(line) ==
    LET K == {k \in 3..(Len(line) - 2) : MatchesAt(line, k, <<"]", "(">>)}
    IN  IF MatchesAt(line, 1, <<"!", "[">>) /\ line[Len(line)] = ")" /\ K # {}
        THEN Min(K) ELSE 0

\* the group of ^<marks>\s+(.+)$ for a one-character mark, or None
MarkedText(line, marks) ==
    IF Len(line) >= 3 /\ line[1] \in marks /\ IsSpace(line[2])
    THEN SubSeq(line, Min({SkipSpace(line, 2), Len(line)}), Len(line))
    ELSE None

\* BLOCKQUOTE_PATTERN, ^>\s+(.+)$
BLOCKQUOTE_PATTERN(line) == MarkedText(line, {">"})

\* BULLET_PATTERN, ^[-*]\s+(.+)$
BULLET_PATTERN(line) == MarkedText(line, {"-", "*"})

\* NUMBERED_LIST_PATTERN, ^(\d+)\.\s+(.+)$
NUMBERED_LIST_PATTERN(line) ==
    LET p == SkipDigits(line, 1)
    IN  p > 1 /\ p + 2 <= Len(line) /\ line[p] = "." /\ IsSpace(line[p + 1])

\* the groups of NUMBERED_LIST_PATTERN
NumberedListGroups(line) ==
    LET p == SkipDigits(line, 1)
    IN  [number |-> SubSeq(line, 1, p - 1),
         text |-> SubSeq(line, Min({SkipSpace(line, p + 1), Len(line)}), Len(line))]

\* MarkdownParser._is_numbered_heading, with _NUMBERED_HEADING_HEURISTIC
\* ^(\d{1,2})\.\s+([Hangul A-Za-z][\w\s Hangul]{0,40})$
_is_numbered_heading(line) ==
    LET s == Strip(line)
        p == SkipDigits(s, 1)
        t == SkipSpace(s, p + 1)
        title == SubSeq(s, t, Len(s))
        title_part == Strip(title)
    IN  /\ p \in 2..3 /\ p + 2 <= Len(s)
        /\ s[p] = "." /\ IsSpace(s[p + 1])
        /\ t <= Len(s) /\ IsLetter(s[t])
        /\ \A k \in (t + 1)..Len(s) : IsWordChar(s[k]) \/ IsSpace(s[k])
        /\ CharCount(SubSeq(s, t + 1, Len(s))) <= 40
        /\ DigitsValue(SubSeq(s, 1, p - 1)) <= 20
        /\ CharCount(title_part) <= 40
        /\ ~(/\ Len(title_part) >= 2
             /\ title_part[Len(title_part)] = "."
             /\ title_part[Len(title_part) - 1] \in SENTENCE_ENDINGS)

\* Element(element_type, content), with the source lines first..last (counted
\* from 0) that the element was read from
Element(element_type, content, first, last) ==
    [element_type |-> element_type, content |-> content, first |-> first, last |-> last]

\* Heading(level, text, is_numbered)
Heading(level, t, is_numbered) == [level |-> level, text |-> t, is_numbered |-> is_numbered]

HEADING_TYPES == {"HEADING_1", "HEADING_2", "HEADING_3", "HEADING_4", "NUMBERED_HEADING"}

\* MarkdownParser._try_parse_heading: the element of a heading line found
\* at source line k, or None
_try_parse_heading(line, k) ==
    IF NUMBERED_HEADING_PATTERN(line)
    THEN Element("NUMBERED_HEADING", Heading(1, cleanup_text(line), TRUE), k, k)
    ELSE IF HeadingMatch(line, 4) # None
    THEN Element("HEADING_4", Heading(4, cleanup_text(HeadingMatch(line, 4)), FALSE), k, k)
    ELSE IF HeadingMatch(line, 3) # None
    THEN Element("HEADING_3", Heading(3, cleanup_text(HeadingMatch(line, 3)), FALSE), k, k)
    ELSE IF HeadingMatch(line, 2) # None
    THEN Element("HEADING_2", Heading(2, cleanup_text(HeadingMatch(line, 2)), FALSE), k, k)
    ELSE IF HeadingMatch(line, 1) # None
    THEN Element("HEADING_1", Heading(1, cleanup_text(HeadingMatch(line, 1)), FALSE), k, k)
    ELSE None

\* the labels _extract_blockquote_title knows, in upper case
BLOCKQUOTE_LABELS == LIGHT_CALLOUTS \cup {"KEY INSIGHT", "NOTE", "WARNING"}

\* str.upper() on the label tokens that have small letters
Upper(c) ==
    CASE c = "key insight" -> "KEY INSIGHT"
      [] c = "note" -> "NOTE"
      [] c = "warning" -> "WARNING"
      [] OTHER -> c

\* MarkdownParser._extract_blockquote_title
_extract_blockquote_title(lines_) ==
    LET first == lines_[1]
        labelled == /\ lines_ # <<>>
                    /\ Len(first) >= 3
                    /\ first[1] = "[" /\ Upper(first[2]) \in BLOCKQUOTE_LABELS /\ first[3] = "]"
        remainder == Strip(SubSeq(first, 4, Len(first)))
        body_lines == IF labelled
                      THEN (IF remainder # <<>> THEN <<remainder>> ELSE <<>>) \o Tail(lines_)
                      ELSE lines_
    IN  [title |-> IF labelled THEN Upper(first[2]) ELSE "KEY INSIGHT",
         text |-> Strip(Join(body_lines, " "))]

\* MarkdownParser._parse_paragraph
_parse_paragraph(line, k) ==
    Element("PARAGRAPH",
            [text |-> line, runs |-> parse_runs(line), has_inline_latex |-> has_inline(line)],
            k, k)

\* ListItem(text, runs)
ListItem(t) == [text |-> t, runs |-> parse_runs(t)]

\* the branch of the loop body that a line takes from the table test on
RegularBranch(line) ==
    IF line # <<>> /\ line[1] = "|" THEN "table"
    ELSE IF _try_parse_heading(line, 0) # None THEN "heading"
    ELSE IF BLOCKQUOTE_PATTERN(line) # None THEN "blockquote"
    ELSE IF BULLET_PATTERN(line) # None THEN "bullet"
    ELSE IF NUMBERED_LIST_PATTERN(line) /\ ~_is_numbered_heading(line) THEN "numbered_list"
    ELSE IF NUMBERED_LIST_PATTERN(line) /\ _is_numbered_heading(line) THEN "numbered_heading"
    ELSE IF ImageSplit(line) # 0 THEN "image"
    ELSE "paragraph"

\* the branch of the loop body that a line takes once it is past the
\* references gate
MainBranch(line) ==
    IF line = <<>> THEN "empty"
    ELSE IF SEPARATOR_PATTERN(line) THEN "separator"
    ELSE IF IsBlockSingleLine(line) THEN "latex_single"
    ELSE IF is_block_start(line) THEN "latex_block"
    ELSE IF is_base64_image(line) THEN "base64"
    ELSE RegularBranch(line)

\* the references gate at the top of the loop body: "header" and "skip" end
\* the iteration, "pass" goes on to the branches
ReferenceGate(line, in_refs) ==
    IF _is_reference_header(line) THEN "header"
    ELSE IF in_refs /\ (REFERENCE_PATTERN(line) \/ line = <<>>) THEN "skip"
    ELSE IF in_refs /\ ~_looks_like_heading(line) THEN "skip"
    ELSE "pass"

\* Lines a document is made of
LinePool ==
    {<<>>,
     <<"-", "-", "-">>,
     <<"#", "#", " ", "-", "-", "-">>,
     <<"#", " ", "x">>,
     <<"#", "#", " ", "references">>,
     <<"x", " ", "references">>,
     <<"1", ".", " ", "x">>,
     <<"1", ".", " ", "x", ".">>,
     <<"$", "$", "x", "$", "$">>,
     <<"$", "$", " ">>,
     <<" ", "|", "x", "|">>,
     <<">", " ", "x">>,
     <<">", " ">>,
     <<">", " ", "[", "ko:sisajeom", "]", " ", "x">>,
     <<"-", " ", "x">>,
     <<"!", "[", "x", "]", "(", "x", ")">>,
     <<"!", "[", "x", "]", "(", DATA_URI, "A", "A", "A", "A", ")">>,
     <<"!", "[", "x", "]", "(", DATA_URI, "A", "A">>,
     <<"A", "A", ")">>,
     <<"x">>,
     <<"*", "*", "1", ".", " ", "x", "*", "*">>}

\* _parse_elements(lines) has been called: elements = [], i = 0,
\* in_references = False
InitElements ==
    /\ pc = "main"
    /\ lines \in SeqsUpTo(LinePool, MaxLines)
    /\ ParserIdle /\ FrontIdle /\ CleanerIdle /\ StructureIdle /\ RenderIdle
    /\ warnings = <<>>
    /\ TableIdle /\ TextIdle

\* line = lines[i].strip()
line == Strip(lines[i + 1])

\* the loop body is at its top with a line to read
AtLine == pc = "main" /\ i < Len(lines)

\* the loop body takes branch b: from the top of the body through the
\* references gate, or falling through after a failed embedded image
Selected(b) ==
    \/ AtLine /\ ReferenceGate(line, in_references) = "pass" /\ MainBranch(line) = b
    \/ pc = "regular" /\ RegularBranch(line) = b

\* the iteration ends: the elements es are appended and the loop goes on at
\* line next_i
Continue(es, next_i) ==
    /\ elements' = elements \o es
    /\ i' = next_i
    /\ start_idx' = next_i
    /\ pc' = "main"
    /\ latex_lines' = <<>> /\ table_lines' = <<>> /\ bq_lines' = <<>>
    /\ combined' = <<>> /\ idx' = 0
    /\ UNCHANGED <<textVars, frontVars, cleanerVars, structureVars, renderVars, lines, tableVars>>

\* an inner loop goes on: only its own variables change
InLoop ==
    UNCHANGED <<textVars, frontVars, cleanerVars, structureVars, renderVars, lines, tableVars, elements, in_references, start_idx, warnings>>

\* if self._is_reference_header(line): in_references = True; i += 1; continue
ReferenceHeader ==
    /\ AtLine
    /\ ReferenceGate(line, in_references) = "header"
    /\ in_references' = TRUE
    /\ Continue(<<>>, i + 1)
    /\ UNCHANGED warnings

\* if in_references: a reference entry, a blank line or a line that does not
\* look like a heading is skipped
ReferenceSkip ==
    /\ AtLine
    /\ ReferenceGate(line, in_references) = "skip"
    /\ Continue(<<>>, i + 1)
    /\ UNCHANGED <<in_references, warnings>>

\* if not line: i += 1; continue
EmptyLine ==
    /\ Selected("empty")
    /\ in_references' = FALSE
    /\ Continue(<<>>, i + 1)
    /\ UNCHANGED warnings

\* a separator branch that forgets i += 1
Separator_NoAdvance ==
    /\ Selected("separator")
    /\ in_references' = FALSE
    /\ Continue(<<>>, i)
    /\ UNCHANGED warnings

\* if self.SEPARATOR_PATTERN.match(line): i += 1; continue
Separator ==
    /\ Selected("separator")
    /\ in_references' = FALSE
    /\ Continue(<<>>, i + 1)
    /\ UNCHANGED warnings

\* Case A: single-line block equation
LatexSingle ==
    /\ Selected("latex_single")
    /\ in_references' = FALSE
    /\ Continue(<<Element("LATEX_BLOCK",
                          [expression |-> is_block_single_line(line), is_block |-> TRUE],
                          i, i)>>, i + 1)
    /\ UNCHANGED warnings

\* Case B: the start delimiter of a multi-line block equation
LatexBegin ==
    /\ Selected("latex_block")
    /\ in_references' = FALSE
    /\ latex_lines' = <<>>
    /\ i' = i + 1
    /\ pc' = "latex"
    /\ UNCHANGED <<textVars, frontVars, cleanerVars, structureVars, renderVars, lines, tableVars, elements, start_idx, warnings,
                   table_lines, bq_lines, combined, idx>>

\* the code after the loop of Case B: the block read up to line next_i
LatexFinish(next_i) ==
    LET expression == Strip(Join(latex_lines, "\n"))
    IN  IF expression # <<>>
        THEN /\ Continue(<<Element("LATEX_BLOCK",
                                   [expression |-> expression, is_block |-> TRUE],
                                   start_idx, next_i - 1)>>, next_i)
             /\ UNCHANGED warnings
        ELSE /\ Continue(<<>>, next_i)
             /\ warnings' = Append(warnings,
                    [event |-> "empty_latex_block", first |-> start_idx, last |-> next_i - 1])

\* the loop of Case B on a line that is no delimiter
LatexStep ==
    /\ pc = "latex" /\ i < Len(lines)
    /\ ~is_block_start(lines[i + 1])
    /\ latex_lines' = Append(latex_lines, lines[i + 1])
    /\ i' = i + 1
    /\ UNCHANGED <<pc, table_lines, bq_lines, combined, idx>>
    /\ InLoop

\* the loop of Case B on the end delimiter: i += 1; break
LatexClose ==
    /\ pc = "latex" /\ i < Len(lines)
    /\ is_block_start(lines[i + 1])
    /\ LatexFinish(i + 1)
    /\ UNCHANGED in_references

\* the loop of Case B at the end of the lines
LatexEnd ==
    /\ pc = "latex" /\ i >= Len(lines)
    /\ LatexFinish(i)
    /\ UNCHANGED in_references

\* Image(alt_text, base64_data, mime_type) element of an embedded image
Base64Element(image, first, last) == Element("IMAGE", image, first, last)

\* a parse_multiline that sends the caller back to the line after the first
parse_multiline_next_Restart(image, start, idx_) == start + 1

\* the second component of what parse_multiline returns after its loop
parse_multiline_next(image, start, idx_) == IF image # None THEN idx_ ELSE start + 1

\* Base64ImageParser.parse_multiline, single-line try
Base64Single ==
    /\ Selected("base64")
    /\ Base64ImageParser_parse(lines[i + 1]) # None
    /\ in_references' = FALSE
    /\ Continue(<<Base64Element(Base64ImageParser_parse(lines[i + 1]), i, i)>>, i + 1)
    /\ UNCHANGED warnings

\* Base64ImageParser.parse_multiline up to its loop
Base64Begin ==
    /\ Selected("base64")
    /\ Base64ImageParser_parse(lines[i + 1]) = None
    /\ in_references' = FALSE
    /\ IF is_base64_image(lines[i + 1])
       THEN combined' = RStrip(lines[i + 1]) /\ idx' = i + 1 /\ pc' = "b64"
       ELSE combined' = <<>> /\ idx' = 0 /\ pc' = "regular"
    /\ warnings' = warnings \o Base64ParseWarnings(lines[i + 1], i)
    /\ UNCHANGED <<textVars, frontVars, cleanerVars, structureVars, renderVars, lines, tableVars, elements, i, start_idx,
                   latex_lines, table_lines, bq_lines>>

\* the code after the loop of parse_multiline, and what the caller does with
\* the result: the image read from lines start_idx .. idx_ - 1
Base64Finish(combined_, idx_) ==
    LET image == Base64ImageParser_parse(combined_)
    IN  IF image # None
        THEN /\ Continue(<<Base64Element(image, start_idx, idx_ - 1)>>,
                         parse_multiline_next(image, start_idx, idx_))
             /\ UNCHANGED warnings
        ELSE /\ warnings' = warnings \o Base64ParseWarnings(combined_, start_idx)
                    \o <<[event |-> "base64_multiline_failed",
                          first |-> start_idx, last |-> start_idx]>>
             /\ pc' = "regular"
             /\ combined' = <<>> /\ idx' = 0
             /\ UNCHANGED <<textVars, frontVars, cleanerVars, structureVars, renderVars, lines, tableVars, elements, i, start_idx,
                            latex_lines, table_lines, bq_lines>>

\* a loop of parse_multiline that goes on to the end of the lines
Base64LoopGuard_NoCap == idx < Len(lines)

\* while idx < len(lines) and idx - start_idx < max_lookahead
Base64LoopGuard == idx < Len(lines) /\ idx - start_idx < max_lookahead

\* the loop of parse_multiline on a line that does not end with ")"
Base64Step ==
    /\ pc = "b64" /\ Base64LoopGuard
    /\ LET l == Strip(lines[idx + 1])
       IN  /\ ~(l # <<>> /\ l[Len(l)] = ")")
           /\ combined' = combined \o l
    /\ idx' = idx + 1
    /\ UNCHANGED <<pc, i, latex_lines, table_lines, bq_lines>>
    /\ InLoop

\* the loop of parse_multiline on a line that ends with ")": break
Base64Close ==
    /\ pc = "b64" /\ Base64LoopGuard
    /\ LET l == Strip(lines[idx + 1])
       IN  /\ l # <<>> /\ l[Len(l)] = ")"
           /\ Base64Finish(combined \o l, idx + 1)
    /\ UNCHANGED in_references

\* the loop of parse_multiline out of lines or of lookahead
Base64End ==
    /\ pc = "b64" /\ ~Base64LoopGuard
    /\ Base64Finish(combined, idx)
    /\ UNCHANGED in_references

\* a block branch is entered: its line list is empty, its loop comes next
BeginBlock(next_pc) ==
    /\ in_references' = FALSE
    /\ pc' = next_pc
    /\ table_lines' = <<>> /\ bq_lines' = <<>>
    /\ UNCHANGED <<textVars, frontVars, cleanerVars, structureVars, renderVars, lines, tableVars, elements, i, start_idx, warnings,
                   latex_lines, combined, idx>>

\* if self.TABLE_START_PATTERN.match(line): table_lines = []
TableBegin == Selected("table") /\ BeginBlock("table")

\* while i < len(lines) and lines[i].strip().startswith("|")
TableLoopGuard == i < Len(lines) /\ line # <<>> /\ line[1] = "|"

TableStep ==
    /\ pc = "table" /\ TableLoopGuard
    /\ table_lines' = Append(table_lines, line)
    /\ i' = i + 1
    /\ UNCHANGED <<pc, latex_lines, bq_lines, combined, idx>>
    /\ InLoop

\* the table element; its content is TableParser.parse(table_lines)
TableEnd ==
    /\ pc = "table" /\ ~TableLoopGuard
    /\ Continue(<<Element("TABLE", [table_lines |-> table_lines], start_idx, i - 1)>>, i)
    /\ UNCHANGED <<in_references, warnings>>

\* a heading branch reached without in_references = False
HeadingLine_KeepsReferences ==
    /\ Selected("heading")
    /\ Continue(<<_try_parse_heading(line, i)>>, i + 1)
    /\ UNCHANGED <<in_references, warnings>>

\* element = self._try_parse_heading(line)
HeadingLine ==
    /\ Selected("heading")
    /\ in_references' = FALSE
    /\ Continue(<<_try_parse_heading(line, i)>>, i + 1)
    /\ UNCHANGED warnings

\* match = self.BLOCKQUOTE_PATTERN.match(line): bq_lines = []
BlockquoteBegin == Selected("blockquote") /\ BeginBlock("bq")

\* while i < len(lines): bq_match = BLOCKQUOTE_PATTERN.match(lines[i].strip())
BlockquoteLoopGuard == i < Len(lines) /\ BLOCKQUOTE_PATTERN(line) # None

BlockquoteStep ==
    /\ pc = "bq" /\ BlockquoteLoopGuard
    /\ bq_lines' = Append(bq_lines, cleanup_text(BLOCKQUOTE_PATTERN(line)))
    /\ i' = i + 1
    /\ UNCHANGED <<pc, latex_lines, table_lines, combined, idx>>
    /\ InLoop

BlockquoteEnd ==
    /\ pc = "bq" /\ ~BlockquoteLoopGuard
    /\ Continue(<<Element("BLOCKQUOTE", _extract_blockquote_title(bq_lines),
                          start_idx, i - 1)>>, i)
    /\ UNCHANGED <<in_references, warnings>>

BulletItem ==
    /\ Selected("bullet")
    /\ in_references' = FALSE
    /\ Continue(<<Element("BULLET_LIST", ListItem(BULLET_PATTERN(line)), i, i)>>, i + 1)
    /\ UNCHANGED warnings

NumberedItem ==
    /\ Selected("numbered_list")
    /\ in_references' = FALSE
    /\ Continue(<<Element("NUMBERED_LIST",
                          [number |-> NumberedListGroups(line).number,
                           item |-> ListItem(NumberedListGroups(line).text)],
                          i, i)>>, i + 1)
    /\ UNCHANGED warnings

\* numbered heading fallback
NumberedHeading ==
    /\ Selected("numbered_heading")
    /\ in_references' = FALSE
    /\ Continue(<<Element("NUMBERED_HEADING", Heading(2, cleanup_text(line), TRUE), i, i)>>,
                i + 1)
    /\ UNCHANGED warnings

\* regular image
ImageLine ==
    /\ Selected("image")
    /\ in_references' = FALSE
    /\ Continue(<<Element("IMAGE",
                          [alt_text |-> SubSeq(line, 3, ImageSplit(line) - 1),
                           path |-> SubSeq(line, ImageSplit(line) + 2, Len(line) - 1),
                           base64_data |-> None, mime_type |-> "image/png"],
                          i, i)>>, i + 1)
    /\ UNCHANGED warnings

ParagraphLine ==
    /\ Selected("paragraph")
    /\ in_references' = FALSE
    /\ Continue(<<_parse_paragraph(line, i)>>, i + 1)
    /\ UNCHANGED warnings

\* while i < len(lines) fails: return elements
ReturnElements ==
    /\ pc = "main" /\ i >= Len(lines)
    /\ pc' = "done"
    /\ UNCHANGED <<textVars, nonTextVars>>

NextElements ==
    \/ ReferenceHeader \/ ReferenceSkip \/ EmptyLine \/ Separator
    \/ LatexSingle \/ LatexBegin \/ LatexStep \/ LatexClose \/ LatexEnd
    \/ Base64Single \/ Base64Begin \/ Base64Step \/ Base64Close \/ Base64End
    \/ TableBegin \/ TableStep \/ TableEnd
    \/ HeadingLine
    \/ BlockquoteBegin \/ BlockquoteStep \/ BlockquoteEnd
    \/ BulletItem \/ NumberedItem \/ NumberedHeading \/ ImageLine \/ ParagraphLine
    \/ ReturnElements

SpecElements == InitElements /\ [][NextElements]_vars

\* source line k (from 0) is ordinary content: not blank, no separator, no
\* reference header, no numbered reference entry
OrdinaryLine(k) ==
    LET l == Strip(lines[k + 1])
    IN  l # <<>> /\ ~SEPARATOR_PATTERN(l) /\ ~_is_reference_header(l) /\ ~REFERENCE_PATTERN(l)

\* source line k went into an element or is named by a warning
Accounted(k) ==
    \/ \E e \in 1..Len(elements) : elements[e].first <= k /\ k <= elements[e].last
    \/ \E w \in 1..Len(warnings) : warnings[w].first <= k /\ k <= warnings[w].last

\* C5: _parse_elements never silently drops ordinary content: every
\* non-blank line that is no separator, no reference header and no numbered
\* reference entry contributes to an element of the returned list or is
\* named by a warning.
C5_NoSilentDrop ==
    pc = "done" => \A k \in 0..(Len(lines) - 1) : OrdinaryLine(k) => Accounted(k)

\* C6: the parser enters the inside-references state only on a heading line
\* whose text holds a reference keyword; any other line leaves the state as
\* it is.
C6_ReferenceEntry ==
    [][(in_references' /\ ~in_references) =>
           (_looks_like_heading(line) /\ ContainsAny(line, _REFERENCE_KEYWORDS))]_vars

\* inside the references state: a blank line or a numbered reference entry
\* is skipped, a reference header keeps the state, and the first line that
\* looks like a heading and is no reference header ends the state
ReferenceStateStep(emitted) ==
    (AtLine /\ in_references) =>
        /\ ((line = <<>> \/ REFERENCE_PATTERN(line)) /\ ~_is_reference_header(line)) =>
               (in_references' /\ elements' = elements /\ i' = i + 1)
        /\ _is_reference_header(line) => (in_references' /\ elements' = elements)
        /\ (_looks_like_heading(line) /\ ~_is_reference_header(line)) =>
               /\ ~in_references'
               /\ pc' = "main" => (i' = i + 1 /\ emitted)

\* the heading line read at line i is appended as a heading element
HeadingEmitted ==
    /\ Len(elements') = Len(elements) + 1
    /\ SubSeq(elements', 1, Len(elements)) = elements
    /\ LET e == elements'[Len(elements')]
       IN  e.element_type \in HEADING_TYPES /\ e.first = i /\ e.last = i

\* C7 as stated: the heading line that ends the references state is always
\* emitted as a heading element.
C7_ReferenceExit_AsStated == [][ReferenceStateStep(HeadingEmitted)]_vars

\* C7: inside the references state blank lines and numbered reference
\* entries are skipped; the first line that looks like a heading and is no
\* reference header ends the state and is emitted as a heading element,
\* unless it is the separator "## ---", which ends the state and is skipped;
\* a reference header met later starts the state again.
C7_ReferenceExit ==
    [][ReferenceStateStep(IF SEPARATOR_PATTERN(line) THEN elements' = elements
                          ELSE HeadingEmitted)]_vars

\* a reference header, a reference entry and a heading have been read: the
\* heading is the only element and the references state has been left
C7_Witness ==
    /\ pc = "done" /\ Len(lines) = 3
    /\ _is_reference_header(lines[1]) /\ REFERENCE_PATTERN(Strip(lines[2]))
    /\ ~in_references
    /\ Len(elements) = 1
    /\ elements[1].element_type \in HEADING_TYPES /\ elements[1].first = 2

\* C8: the elements are in source line order: each element starts strictly
\* after the last line of the element before it, so no line belongs to two
\* elements.
C8_SourceOrder ==
    \A k \in 1..Len(elements) :
        /\ 0 <= elements[k].first /\ elements[k].first <= elements[k].last
        /\ elements[k].last < Len(lines)
        /\ k > 1 => elements[k].first > elements[k - 1].last

\* an element read from several lines is followed by another element
C8_Witness ==
    /\ pc = "done" /\ Len(elements) >= 2
    /\ elements[1].last > elements[1].first
    /\ elements[1].element_type = "IMAGE"

\* a step of the parser advances: a loop body that ends has moved i past the
\* line it began at, and a step of an inner loop moves its index
Advances ==
    /\ (pc # "done" /\ pc' = "main") => i' > start_idx
    /\ (pc = pc' /\ pc \in {"latex", "table", "bq"}) => i' > i
    /\ (pc = pc' /\ pc = "b64") => (idx' > idx /\ idx' - start_idx <= max_lookahead)

\* how far a loop body has got: top, image continuation, fall-through,
\* block loop, returned
Stage(p) ==
    CASE p = "main" -> 4
      [] p = "b64" -> 3
      [] p = "regular" -> 2
      [] p \in {"latex", "table", "bq"} -> 1
      [] OTHER -> 0

\* a step moves on in the order (lines left, stage of the loop body, lines
\* left to the inner loop), and no index passes the end of the lines
Progresses ==
    /\ \/ start_idx' > start_idx
       \/ start_idx' = start_idx /\ Stage(pc') < Stage(pc)
       \/ start_idx' = start_idx /\ pc' = pc /\ i' > i
       \/ start_idx' = start_idx /\ pc' = pc /\ i' = i /\ idx' > idx
    /\ start_idx' <= Len(lines) /\ i' <= Len(lines) /\ idx' <= Len(lines)

\* C9: _parse_elements terminates: every pass of the main loop, whichever
\* branch it takes, moves the line index forward by at least one, every step
\* of an inner loop advances, and every step brings the parser nearer to
\* its return in an order that cannot descend for ever.
C9_Terminates == [][Advances /\ Progresses]_vars

\* the parser has returned after a multi-line image that failed to parse
C9_Witness ==
    /\ pc = "done" /\ i = Len(lines) /\ Len(lines) >= 2
    /\ \E w \in 1..Len(warnings) : warnings[w].event = "base64_multiline_failed"

\* ------------------------------------------------------------------------
\* FrontmatterParser (src/md_parser.py)
\* ------------------------------------------------------------------------
MaxFrontLines == 4

\* a line that consists solely of "---"
FRONTMATTER_MARKER == <<"-", "-", "-">>

\* [A-Za-z0-9_.-]: one such character, or a token made of them
IsKeyChar(c) == IsLetter(c) \/ IsDigit(c) \/ c \in {"_", ".", "-", INVALID_DATE}

\* _MARKDOWN_HEADING_RE.match(stripped): ^#{1,6}\s+
_MARKDOWN_HEADING_RE(s) ==
    LET h == LeadingHashes(s)
    IN  h \in 1..6 /\ h < Len(s) /\ IsSpace(s[h + 1])

\* _BOLD_LABEL_RE.search(stripped): \*\*[^*]+:\*\*
_BOLD_LABEL_RE(s) ==
    \E p \in 1..Len(s), q \in 1..Len(s) :
        /\ MatchesAt(s, p, <<"*", "*">>)
        /\ q >= p + 3
        /\ \A k \in (p + 2)..(q - 1) : s[k] # "*"
        /\ MatchesAt(s, q, <<":", "*", "*">>)

\* the end of the run of key characters that starts at p
RECURSIVE SkipKeyChars(_, _)
SkipKeyChars(s, p) == IF p <= Len(s) /\ IsKeyChar(s[p]) THEN SkipKeyChars(s, p + 1) ELSE p

\* _SIMPLE_KEY_VALUE_RE.match(stripped): ^[A-Za-z0-9_.-]+\s*:\s*.*$
_SIMPLE_KEY_VALUE_RE(s) ==
    LET k == SkipKeyChars(s, 1)
        c == SkipSpace(s, k)
    IN  k > 1 /\ c <= Len(s) /\ s[c] = ":"

\* stripped.split(":", 1) of a text that holds a colon
SplitColon(s) ==
    LET c == FirstIndex(s, 1, ":")
    IN  <<SubSeq(s, 1, c - 1), SubSeq(s, c + 1, Len(s))>>

\* the loop of _is_valid_frontmatter from line k on
RECURSIVE ValidFrom(_, _, _, _, _)
ValidFrom(ls, k, non_empty_count, key_value_count, empty_streak) ==
    IF k > Len(ls) THEN non_empty_count > 0 /\ key_value_count > 0
    ELSE
        LET stripped == Strip(ls[k])
        IN  IF stripped = <<>>
            THEN IF empty_streak + 1 >= 2 THEN FALSE
                 ELSE ValidFrom(ls, k + 1, non_empty_count, key_value_count, empty_streak + 1)
            ELSE IF _MARKDOWN_HEADING_RE(stripped) THEN FALSE
            ELSE IF _BOLD_LABEL_RE(stripped) THEN FALSE
            ELSE IF \E p \in 1..Len(stripped) : MatchesAt(stripped, p, <<"*", "*">>) THEN FALSE
            ELSE IF _SIMPLE_KEY_VALUE_RE(stripped)
            THEN IF CharCount(Strip(SplitColon(stripped)[2])) > 120 THEN FALSE
                 ELSE ValidFrom(ls, k + 1, non_empty_count + 1, key_value_count + 1, 0)
            ELSE IF CharCount(stripped) > 120 /\ \A p \in 1..Len(stripped) : stripped[p] # ":"
            THEN FALSE
            ELSE ValidFrom(ls, k + 1, non_empty_count + 1, key_value_count, 0)

\* FrontmatterParser._is_valid_frontmatter
_is_valid_frontmatter(ls) == ls # <<>> /\ ValidFrom(ls, 1, 0, 0, 0)

\* FrontmatterParser._is_simple_key_value_block
_is_simple_key_value_block(ls) ==
    /\ \A k \in 1..Len(ls) : Strip(ls[k]) = <<>> \/ _SIMPLE_KEY_VALUE_RE(Strip(ls[k]))
    /\ {k \in 1..Len(ls) : Strip(ls[k]) # <<>>} # {}

\* a dict is the sequence of its <<key, value>> items in insertion order;
\* d[key] = value keeps the place of a key that is already there
DictSet(d, key, value) ==
    IF \E k \in 1..Len(d) : d[k][1] = key
    THEN [k \in 1..Len(d) |-> IF d[k][1] = key THEN <<key, value>> ELSE d[k]]
    ELSE Append(d, <<key, value>>)

\* the dict that the assignments of items, in order, build on d
RECURSIVE DictOf(_, _)
DictOf(items, d) ==
    IF items = <<>> THEN d
    ELSE DictOf(Tail(items), DictSet(d, Head(items)[1], Head(items)[2]))

\* d.get(key, default)
DictGet(d, key, default) ==
    IF \E k \in 1..Len(d) : d[k][1] = key
    THEN d[CHOOSE k \in 1..Len(d) : d[k][1] = key][2]
    ELSE default

\* str.lower()
LowerStr(s) == [k \in 1..Len(s) |-> Lower(s[k])]

\* str.strip(c) for one character c
StripChar(s, c) ==
    LET K == {k \in 1..Len(s) : s[k] # c}
    IN  IF K = {} THEN <<>>
        ELSE SubSeq(s, Min(K), CHOOSE k \in K : \A r \in K : r <= k)

\* FrontmatterParser._parse_simple_key_values
_parse_simple_key_values(ls) ==
    LET kv == SelectSeq(ls, LAMBDA l_ : Strip(l_) # <<>> /\ _SIMPLE_KEY_VALUE_RE(Strip(l_)))
        Item(l_) ==
            LET parts == SplitColon(Strip(l_))
            IN  <<LowerStr(Strip(parts[1])),
                  StripChar(StripChar(Strip(parts[2]), "\""), "'")>>
    IN  DictOf([k \in 1..Len(kv) |-> Item(kv[k])], <<>>)

\* yaml.safe_load reads the lines of the block as PyYAML's scanner does a
\* line that starts at column 0 and holds no quote, anchor or tag: ": " or
\* a colon at the end of the line makes the line a mapping entry
YamlColons(l_) == {p \in 1..Len(l_) : l_[p] = ":" /\ (p = Len(l_) \/ IsSpace(l_[p + 1]))}

\* the key and the value of a mapping entry
YamlItem(l_) ==
    LET c == Min(YamlColons(l_))
    IN  <<RStrip(SubSeq(l_, 1, c - 1)), Strip(SubSeq(l_, c + 1, Len(l_)))>>

YamlLineKind(l_) ==
    IF Strip(l_) = <<>> THEN "blank"
    ELSE IF l_[1] = "#" THEN "comment"
    ELSE IF l_[1] = "-" /\ (Len(l_) = 1 \/ IsSpace(l_[2])) THEN "sequence entry"
    ELSE IF YamlColons(l_) = {} THEN "plain scalar"
    ELSE LET value == YamlItem(l_)[2]
         IN  IF value # <<>> /\ Head(value) = "[" /\ \A p \in 1..Len(value) : value[p] # "]"
             THEN "open flow sequence"
             ELSE "mapping entry"

\* what yaml.safe_load(yaml_content) returns or raises
YamlResult(raises, type, items) == [raises |-> raises, type |-> type, items |-> items]

\* yaml.safe_load("\n".join(frontmatter_lines)): the document is composed
\* first (a structure that does not parse raises a YAMLError) and its
\* values are constructed after that; a plain scalar that has the form of a
\* timestamp is constructed with datetime.date, which raises ValueError for
\* a day that does not exist.  A plain scalar at the start of the document
\* runs on over the lines after it, up to a comment.
safe_load(ls) ==
    LET ks == [k \in 1..Len(ls) |-> YamlLineKind(ls[k])]
        content == {k \in 1..Len(ls) : ks[k] \notin {"blank", "comment"}}
    IN  IF content = {} THEN YamlResult("None", "NoneType", <<>>)
        ELSE
          LET first == Min(content)
              entries == SelectSeq(ls, LAMBDA l_ : YamlLineKind(l_) = "mapping entry")
          IN  CASE ks[first] = "plain scalar" ->
                     LET comments == {k \in (first + 1)..Len(ls) : ks[k] = "comment"}
                         stop == IF comments = {} THEN Len(ls) + 1 ELSE Min(comments)
                     IN  IF \/ \E k \in content : k > stop
                            \/ \E k \in (first + 1)..(stop - 1) :
                                   ks[k] \in {"mapping entry", "open flow sequence"}
                         THEN YamlResult("YAMLError", "NoneType", <<>>)
                         ELSE YamlResult("None", "str", <<>>)
                [] ks[first] = "sequence entry" ->
                     IF \A k \in content : ks[k] = "sequence entry"
                     THEN YamlResult("None", "list", <<>>)
                     ELSE YamlResult("YAMLError", "NoneType", <<>>)
                [] OTHER ->
                     IF \E k \in content : ks[k] # "mapping entry"
                     THEN YamlResult("YAMLError", "NoneType", <<>>)
                     ELSE IF \E k \in content : YamlItem(ls[k])[2] = <<INVALID_DATE>>
                     THEN YamlResult("ValueError", "NoneType", <<>>)
                     ELSE YamlResult("None", "dict",
                              DictOf([k \in 1..Len(entries) |-> YamlItem(entries[k])], <<>>))

\* data = {str(key).strip().lower(): value for key, value in parsed_data.items()}
MetadataData(items) ==
    DictOf([k \in 1..Len(items) |-> <<LowerStr(Strip(items[k][1])), items[k][2]>>], <<>>)

known_keys ==
    {<<"title">>, <<"subtitle">>, <<"company">>, <<"ticker">>, <<"sector">>, <<"analyst">>}

\* the metadata fields mapped from the parsed mapping, on the defaults m
MapToMetadata(m, items) ==
    LET data == MetadataData(items)
    IN  [title |-> DictGet(data, <<"title">>, m.title),
         subtitle |-> DictGet(data, <<"subtitle">>, m.subtitle),
         company |-> DictGet(data, <<"company">>, m.company),
         ticker |-> DictGet(data, <<"ticker">>, m.ticker),
         sector |-> DictGet(data, <<"sector">>, m.sector),
         analyst |-> DictGet(data, <<"analyst">>, m.analyst),
         extra |-> SelectSeq(data, LAMBDA item : item[1] \notin known_keys)]

\* the lines the model reads frontmatter from
FrontPool ==
    {<<>>,
     FRONTMATTER_MARKER,
     <<"-", "-", "-", " ">>,
     <<"title", ":", " ", "T">>,
     <<"Title", " ", ":", " ", "U">>,
     <<"a", ":", "b">>,
     <<"date", ":", " ", INVALID_DATE>>,
     <<"title", ":", " ", "[">>,
     <<"-", " ", "x">>,
     <<"#", "x">>,
     <<"a", " ", "b", ":", " ", "T">>,
     <<"x">>,
     <<"a", ":", " ", LONG_TEXT>>,
     <<LONG_TEXT>>,
     <<"#", " ", "x">>,
     <<"*", "*", "a", ":", "*", "*", " ", "b">>,
     <<"x", " ", "*", "*">>}

\* FrontmatterParser.parse(lines) has been called: metadata = DocumentMetadata()
InitFront ==
    /\ pc = "parse"
    /\ lines \in SeqsUpTo(FrontPool, MaxFrontLines)
    /\ FrontIdle /\ ParserIdle /\ CleanerIdle /\ StructureIdle /\ RenderIdle
    /\ warnings = <<>>
    /\ TableIdle /\ TextIdle

\* what FrontmatterParser.parse does not touch
frontOthers ==
    <<textVars, lines, tableVars, warnings, elements, in_references, start_idx,
      latex_lines, table_lines, bq_lines, combined, idx, cleanerVars, structureVars, renderVars>>

\* return metadata, lines
ReturnUnchanged ==
    /\ remaining' = lines
    /\ pc' = "returned"
    /\ UNCHANGED <<metadata, i, frontmatter_lines, content_start_idx, parsed_data,
                   exception, frontOthers>>

\* if not lines or lines[0].strip() != "---": return metadata, lines
NoOpeningMarker ==
    /\ pc = "parse"
    /\ ~(lines # <<>> /\ Strip(lines[1]) = FRONTMATTER_MARKER)
    /\ ReturnUnchanged

\* content_start_idx = 0; frontmatter_lines = []; for i, line in enumerate(lines[1:], 1)
OpeningMarker ==
    /\ pc = "parse"
    /\ lines # <<>> /\ Strip(lines[1]) = FRONTMATTER_MARKER
    /\ content_start_idx' = 0
    /\ frontmatter_lines' = <<>>
    /\ i' = 1
    /\ pc' = "find_end"
    /\ UNCHANGED <<metadata, remaining, parsed_data, exception, frontOthers>>

\* frontmatter_lines.append(line)
FrontmatterLine ==
    /\ pc = "find_end" /\ i < Len(lines)
    /\ Strip(lines[i + 1]) # FRONTMATTER_MARKER
    /\ frontmatter_lines' = Append(frontmatter_lines, lines[i + 1])
    /\ i' = i + 1
    /\ UNCHANGED <<pc, metadata, remaining, content_start_idx, parsed_data, exception,
                   frontOthers>>

\* if line.strip() == "---": content_start_idx = i + 1; break
ClosingMarker ==
    /\ pc = "find_end" /\ i < Len(lines)
    /\ Strip(lines[i + 1]) = FRONTMATTER_MARKER
    /\ content_start_idx' = i + 1
    /\ pc' = "validate"
    /\ UNCHANGED <<i, metadata, remaining, frontmatter_lines, parsed_data, exception,
                   frontOthers>>

\* the loop ends without a break; if content_start_idx == 0: return metadata, lines
NoClosingMarker ==
    /\ pc = "find_end" /\ i >= Len(lines)
    /\ content_start_idx = 0
    /\ ReturnUnchanged

\* if not FrontmatterParser._is_valid_frontmatter(frontmatter_lines): return metadata, lines
InvalidFrontmatter ==
    /\ pc = "validate"
    /\ ~_is_valid_frontmatter(frontmatter_lines)
    /\ ReturnUnchanged

\* parsed_data = yaml.safe_load(yaml_content) or {}
SafeLoad ==
    /\ pc = "validate"
    /\ _is_valid_frontmatter(frontmatter_lines)
    /\ LET loaded == safe_load(frontmatter_lines)
       IN  /\ loaded.raises = "None"
           /\ parsed_data' = IF loaded.type = "NoneType"
                             THEN YamlResult("None", "dict", <<>>)
                             ELSE loaded
    /\ pc' = "mapping"
    /\ UNCHANGED <<i, metadata, remaining, frontmatter_lines, content_start_idx, exception,
                   frontOthers>>

\* except yaml.YAMLError
SafeLoadYAMLError ==
    /\ pc = "validate"
    /\ _is_valid_frontmatter(frontmatter_lines)
    /\ safe_load(frontmatter_lines).raises = "YAMLError"
    /\ pc' = "fallback"
    /\ UNCHANGED <<i, metadata, remaining, frontmatter_lines, content_start_idx, parsed_data,
                   exception, frontOthers>>

\* yaml.safe_load raises an exception that is not a yaml.YAMLError: no
\* handler of parse catches it
SafeLoadRaises ==
    /\ pc = "validate"
    /\ _is_valid_frontmatter(frontmatter_lines)
    /\ safe_load(frontmatter_lines).raises \notin {"None", "YAMLError"}
    /\ exception' = safe_load(frontmatter_lines).raises
    /\ pc' = "raised"
    /\ UNCHANGED <<i, metadata, remaining, frontmatter_lines, content_start_idx, parsed_data,
                   frontOthers>>

\* if not FrontmatterParser._is_simple_key_value_block(frontmatter_lines): return metadata, lines
FallbackUnsafe ==
    /\ pc = "fallback"
    /\ ~_is_simple_key_value_block(frontmatter_lines)
    /\ ReturnUnchanged

\* parsed_data = FrontmatterParser._parse_simple_key_values(frontmatter_lines)
FallbackParse ==
    /\ pc = "fallback"
    /\ _is_simple_key_value_block(frontmatter_lines)
    /\ parsed_data' = YamlResult("None", "dict", _parse_simple_key_values(frontmatter_lines))
    /\ pc' = "mapping"
    /\ UNCHANGED <<i, metadata, remaining, frontmatter_lines, content_start_idx, exception,
                   frontOthers>>

\* if not isinstance(parsed_data, dict): return metadata, lines
NotMapping ==
    /\ pc = "mapping"
    /\ parsed_data.type # "dict"
    /\ ReturnUnchanged

\* the metadata fields are mapped; return metadata, lines[content_start_idx:]
MapMetadata ==
    /\ pc = "mapping"
    /\ parsed_data.type = "dict"
    /\ metadata' = MapToMetadata(metadata, parsed_data.items)
    /\ remaining' = SubSeq(lines, content_start_idx + 1, Len(lines))
    /\ pc' = "returned"
    /\ UNCHANGED <<i, frontmatter_lines, content_start_idx, parsed_data, exception,
                   frontOthers>>

NextFront ==
    \/ NoOpeningMarker
    \/ OpeningMarker
    \/ FrontmatterLine
    \/ ClosingMarker
    \/ NoClosingMarker
    \/ InvalidFrontmatter
    \/ SafeLoad
    \/ SafeLoadYAMLError
    \/ SafeLoadRaises
    \/ FallbackUnsafe
    \/ FallbackParse
    \/ NotMapping
    \/ MapMetadata

SpecFront == InitFront /\ [][NextFront]_vars

\* the lines that consist solely of "---" after the first line
ClosingMarkers == {k \in 2..Len(lines) : Strip(lines[k]) = FRONTMATTER_MARKER}

\* the lines between the opening marker and the first marker after it
FrontmatterBlock == SubSeq(lines, 2, Min(ClosingMarkers) - 1)

\* the block parses to a mapping: YAML gives a mapping, or YAML fails and the
\* block is a simple key: value block
ParsesToMapping(ls) ==
    LET loaded == safe_load(ls)
    IN  \/ loaded.raises = "None" /\ loaded.type \in {"dict", "NoneType"}
        \/ loaded.raises = "YAMLError" /\ _is_simple_key_value_block(ls)

\* the first line is "---", a later line is "---", and the lines between
\* validate as key: value metadata and parse to a mapping
IsFrontmatter ==
    /\ lines # <<>> /\ Strip(lines[1]) = FRONTMATTER_MARKER
    /\ ClosingMarkers # {}
    /\ _is_valid_frontmatter(FrontmatterBlock)
    /\ ParsesToMapping(FrontmatterBlock)

\* parse has returned the parsed metadata and exactly the lines after the
\* closing marker
ReturnedParsed ==
    /\ pc = "returned"
    /\ metadata = MapToMetadata(DocumentMetadata, parsed_data.items)
    /\ remaining = SubSeq(lines, Min(ClosingMarkers) + 1, Len(lines))

\* parse has returned the default metadata and the input lines unchanged
ReturnedDefault ==
    /\ pc = "returned"
    /\ metadata = DocumentMetadata
    /\ remaining = lines

\* C10: FrontmatterParser.parse has exactly two outcomes: when the first
\* line is "---", a later line is "---" and the lines between validate as
\* key: value metadata and parse to a mapping, it returns the parsed
\* metadata and exactly the lines after the closing "---"; otherwise it
\* returns the default DocumentMetadata and the input lines unchanged.
C10_TwoOutcomes ==
    pc \in {"returned", "raised"} =>
        IF IsFrontmatter THEN ReturnedParsed ELSE ReturnedDefault

\* ------------------------------------------------------------------------
\* StructureDetector (src/md_formatter.py)
\* ------------------------------------------------------------------------
MaxPieces == 5

\* the words of the reflow texts that are written in Hangul; a word is one
\* token and stands for the characters TokenWidth gives
ReflowHangul ==
    {"ko:jemok", "ko:seoron", "ko:bollon", "ko:i", "ko:bogoseoneun", "ko:bunseogeul",
     "ko:jegonghamnida", "ko:juyo", "ko:naeyongimnida", "ko:yeon", "ko:jo", "ko:won",
     "ko:ttaraseo", "ko:bon"}

\* [Hangul]
IsHangul(c) ==
    \/ c \in ReflowHangul \cup HangulWords
    \/ \E k \in 1..Len(_SPACING_LABELS) : \E j \in 1..Len(_SPACING_LABELS[k]) :
           c = _SPACING_LABELS[k][j] /\ c \notin {" ", "API"}

\* [A-Z], a capital or a word in capitals
IsUpper(c) == c \in {"A", "B", "API", "DSCR", "NOTE", "WARNING"}

\* [a-z]
IsLower(c) == c \in {"a", "b", "x", FORTY_LETTERS}

\* the first character of a heading title: [Hangul A-Z] and the extra ones
IsTitleStart(c, extra) == IsHangul(c) \/ IsUpper(c) \/ c \in extra

\* a later character of a heading title: [Hangul a-zA-Z\s()\-:] and the
\* extra ones
IsTitleChar(c, extra) ==
    IsHangul(c) \/ IsUpper(c) \/ IsLower(c) \/ IsSpace(c) \/ c \in {"(", ")", "-", ":"} \/ c \in extra

\* \d{1,2}\. at p: the index after the dot, 0 without a match
NumberDot(s, p) ==
    IF p + 1 <= Len(s) /\ IsDigit(s[p]) /\ s[p + 1] = "." THEN p + 2
    ELSE IF p + 2 <= Len(s) /\ IsDigit(s[p]) /\ IsDigit(s[p + 1]) /\ s[p + 2] = "."
    THEN p + 3
    ELSE 0

\* n times \d{1,2}\. from p on: the index after the last dot, 0 without a match
RECURSIVE NumberDots(_, _, _)
NumberDots(s, p, n) ==
    IF n = 0 THEN p
    ELSE LET q == NumberDot(s, p)
         IN  IF q = 0 THEN 0 ELSE NumberDots(s, q, n - 1)

\* a title at p, one first character and 1 to max later ones, as many as
\* there are: the index after the title, 0 without a match
TitleEnd(s, p, first_extra, rest_extra, max) ==
    IF p > Len(s) \/ ~IsTitleStart(s[p], first_extra) THEN 0
    ELSE LET Fits(q) ==
                 /\ \A k \in (p + 1)..q : IsTitleChar(s[k], rest_extra)
                 /\ CharCount(SubSeq(s, p, q)) - 1 <= max
             q == CHOOSE e \in p..Len(s) : Fits(e) /\ \A r \in p..Len(s) : Fits(r) => r <= e
         IN  IF CharCount(SubSeq(s, p, q)) >= 2 THEN q + 1 ELSE 0

\* a numbered heading of n numbers at p, "N.N. Title": where the numbers end
\* (after the last dot), where the title starts and where the match ends
NumberedHeadingAt(s, p, n, first_extra, rest_extra, max) ==
    LET dots == NumberDots(s, p, n)
        title == IF dots = 0 THEN 0 ELSE SkipSpace(s, dots)
        stop == IF dots = 0 \/ title = dots THEN 0
                ELSE TitleEnd(s, title, first_extra, rest_extra, max)
    IN  [dots |-> dots, title |-> title, stop |-> stop]

\* MAJOR_HEADING_RE at p
MAJOR_HEADING_RE(s, p) == NumberedHeadingAt(s, p, 1, {}, {}, 50)

\* SUB_HEADING_RE at p, with its lookbehind (?<!\d\.)
SUB_HEADING_RE(s, p) ==
    IF p >= 3 /\ IsDigit(s[p - 2]) /\ s[p - 1] = "."
    THEN [dots |-> 0, title |-> 0, stop |-> 0]
    ELSE NumberedHeadingAt(s, p, 2, {"\""}, {"\"", "'"}, 60)

\* SUBSUB_HEADING_RE at p
SUBSUB_HEADING_RE(s, p) == NumberedHeadingAt(s, p, 3, {}, {}, 60)

HeadingPattern(level, s, p) ==
    CASE level = 2 -> MAJOR_HEADING_RE(s, p)
      [] level = 3 -> SUB_HEADING_RE(s, p)
      [] level = 4 -> SUBSUB_HEADING_RE(s, p)

\* pattern.finditer(text): the starts of the leftmost matches that do not
\* overlap, from p on
RECURSIVE HeadingMatches(_, _, _)
HeadingMatches(level, s, p) ==
    IF p > Len(s) THEN {}
    ELSE LET m == HeadingPattern(level, s, p)
         IN  IF m.stop > 0 THEN {p} \cup HeadingMatches(level, s, m.stop)
             ELSE HeadingMatches(level, s, p + 1)

\* the heading marker of a level
HeadingMarker(level) == <<"\n", "\n">> \o [k \in 1..level |-> "#"] \o <<" ">>

\* r"\n\n### \1. \2": the marker, the numbers with their last dot, one space
\* and the title
HeadingText(level, s, p) ==
    LET m == HeadingPattern(level, s, p)
    IN  HeadingMarker(level) \o SubSeq(s, p, m.dots - 1) \o <<" ">>
            \o SubSeq(s, m.title, m.stop - 1)

\* pattern.sub(replacement, text) for SUB_HEADING_RE and SUBSUB_HEADING_RE
HeadingSub(level, s) ==
    LET starts == HeadingMatches(level, s, 1)
        Out(ix) ==
            IF ix \in starts THEN HeadingText(level, s, ix)
            ELSE IF \E q \in starts : q < ix /\ ix < HeadingPattern(level, s, q).stop THEN <<>>
            ELSE <<s[ix]>>
    IN  Flatten([ix \in 1..Len(s) |-> Out(ix)])

\* re.search(r"\d\.$", prefix): $ is the end of the prefix, or the place
\* before a newline that ends it
EndsWithNumberDot(prefix) ==
    LET n == Len(prefix)
        At(e) == e >= 2 /\ IsDigit(prefix[e - 1]) /\ prefix[e] = "."
    IN  At(n) \/ (n >= 1 /\ prefix[n] = "\n" /\ At(n - 1))

\* re.search(r"[particle]\.$", title_stripped), the particles as they are
\* written in SENTENCE_FINAL
SENTENCE_FINAL == {"ko:da", "ko:yo", "ko:eum", "ko:ham", "ko:im", "ko:doem"}

EndsWithSentence(title_stripped) ==
    LET n == Len(title_stripped)
        At(e) == e >= 2 /\ title_stripped[e - 1] \in SENTENCE_FINAL /\ title_stripped[e] = "."
    IN  At(n) \/ (n >= 1 /\ title_stripped[n] = "\n" /\ At(n - 1))

\* the body of the loop of _insert_major_headings up to the insertion:
\* whether the match at p of the text s gets a marker in the working text res
MatchAccepted(res, s, p) ==
    LET m == MAJOR_HEADING_RE(s, p)
        title_stripped == Strip(SubSeq(s, m.title, m.stop - 1))
    IN  /\ ~EndsWithNumberDot(SubSeq(res, 1, p - 1))
        /\ p = 1 \/ res[p - 1] \in {" ", "\n", "\t", ".", "]", ")"}
        /\ CharCount(title_stripped) <= 45
        /\ ~EndsWithSentence(title_stripped)

\* _insert_major_headings: whether the match at p gets a marker
MajorHeadingAccepted(s, p) == MatchAccepted(s, s, p)

\* StructureDetector._insert_major_headings: an accepted match keeps its
\* first character, the heading text follows it
_insert_major_headings(s) ==
    LET starts == HeadingMatches(2, s, 1)
        Out(ix) ==
            IF ix \in starts /\ MajorHeadingAccepted(s, ix)
            THEN <<s[ix]>> \o HeadingText(2, s, ix)
            ELSE IF \E q \in starts :
                        /\ MajorHeadingAccepted(s, q)
                        /\ q < ix /\ ix < MAJOR_HEADING_RE(s, q).stop
            THEN <<>>
            ELSE <<s[ix]>>
    IN  Flatten([ix \in 1..Len(s) |-> Out(ix)])

\* the callout words of CALLOUT_RE
CALLOUT_RE == LIGHT_CALLOUTS \cup {"NOTE", "WARNING"}

\* BULLET_MARKERS_RE.sub(r"\n\n- ", text): a marker and the whitespace
\* after it become the start of a list item
BULLET_MARKERS_RE(s) ==
    LET IsMarker(q) == s[q] \in {"bullet:middle dot", "bullet:dot", "bullet:reference mark"}
        Out(ix) ==
            IF IsMarker(ix) THEN <<"\n", "\n", "-", " ">>
            ELSE IF \E q \in 1..(ix - 1) : IsMarker(q) /\ ix < SkipSpace(s, q + 1) THEN <<>>
            ELSE <<s[ix]>>
    IN  Flatten([ix \in 1..Len(s) |-> Out(ix)])

\* the words that end as a Korean sentence does
SentenceEndWords ==
    SENTENCE_ENDINGS \cup {"ko:jegonghamnida", "ko:naeyongimnida", "ko:sisajeom"}

\* SENTENCE_END_RE.sub(r"\1.\n\n", text): a paragraph break after the full
\* stop of a sentence that Hangul, a capital or "[" follows
SENTENCE_END_RE(s) ==
    LET Ends(q) ==
            /\ s[q] = "." /\ q > 1 /\ q < Len(s)
            /\ s[q - 1] \in SentenceEndWords
            /\ IsHangul(s[q + 1]) \/ IsUpper(s[q + 1]) \/ s[q + 1] = "["
    IN  Flatten([ix \in 1..Len(s) |-> IF Ends(ix) THEN <<".", "\n", "\n">> ELSE <<s[ix]>>])

\* StructureDetector.PARA_STARTERS
PARA_STARTERS ==
    << <<"ko:gyeollonjeogeuro", ",">>,
       <<"ko:ttaraseo", ",">>,
       <<"ko:geureona", ",">>,
       <<"ko:daman", ",">>,
       <<"ko:ie", ",">>,
       <<"ko:teuki", ",">>,
       <<"ko:ttohan", ",">>,
       <<"ko:hanpyeon", ",">>,
       <<"ko:jeuk", ",">>,
       <<"ko:yereul", " ", "ko:deureo", ",">>,
       <<"ko:guchejeogeuro", ",">>,
       <<"ko:bon", " ", "ko:bogoseoneun">>,
       <<"ko:bon", " ", "ko:geoneun">>,
       <<"ko:wi", " ", "ko:algorijeum">> >>

\* re.sub(rf"(?<!: ){starter}", f"\n\n{starter}", result) for one starter
InsertStarter(s, starter) ==
    LET Starts(q) ==
            /\ MatchesAt(s, q, starter)
            /\ ~(q >= 3 /\ s[q - 2] = ":" /\ s[q - 1] = " ")
    IN  Flatten([ix \in 1..Len(s) |->
                    IF Starts(ix) THEN <<"\n", "\n", s[ix]>> ELSE <<s[ix]>>])

RECURSIVE InsertStartersFrom(_, _)
InsertStartersFrom(s, k) ==
    IF Len(s) = 0 \/ k > Len(PARA_STARTERS) THEN s
    ELSE The({InsertStartersFrom(next, k + 1) : next \in {InsertStarter(s, PARA_STARTERS[k])}})

\* StructureDetector.insert_structure: each step works on the text the step
\* before it returned
insert_structure(s) ==
    The({ InsertStartersFrom(sentences, 1) :
            sentences \in { SENTENCE_END_RE(bullets) :
              bullets \in { BULLET_MARKERS_RE(callouts) :
                callouts \in { InsertCallouts(major, CALLOUT_RE) :
                  major \in { _insert_major_headings(subsub) :
                    subsub \in { HeadingSub(4, sub) :
                      sub \in { HeadingSub(3, s) } } } } } } })

\* the pieces the texts given to insert_structure are made of
StructurePieces ==
    { <<"1", ".">>, <<"1", "2", ".">>, <<"3", ".">>, <<" ">>, <<"ko:jemok">>, <<"x">> }

InitStructure ==
    /\ pc = "input"
    /\ \E pieces \in SeqsUpTo(StructurePieces, MaxPieces) : text = Flatten(pieces)
    /\ result = text
    /\ _block_store = <<>> /\ _inline_store = <<>> /\ _store = <<>>
    /\ runs = <<>> /\ outputs = <<>> /\ frontmatter = <<>>
    /\ NonTextIdle

\* result = StructureDetector.insert_structure(result)
InsertStructure ==
    /\ pc = "input"
    /\ result' = insert_structure(result)
    /\ pc' = "structured"
    /\ UNCHANGED <<text, _block_store, _inline_store, _store, runs, outputs,
                 frontmatter, nonTextVars>>

NextStructure == InsertStructure

SpecStructure == InitStructure /\ [][NextStructure]_vars

\* whether the tokens of part stand somewhere in s
Contains(s, part) == \E q \in 1..Len(s) : MatchesAt(s, q, part)

\* a heading of n numbers, "N.N. Title", starts at p of the text: the
\* numbers, whitespace and a title stand there, and no digit or dot before
\* them makes them the tail of a longer number
HeadingAt(n, p) ==
    /\ NumberedHeadingAt(text, p, n, {}, {}, 60).stop > 0
    /\ p = 1 \/ ~(IsDigit(text[p - 1]) \/ text[p - 1] = ".")

\* the marker of the level and the heading that starts at p, as the claim
\* writes them: "#### A.B.C. Title"
MarkedHeading(n, p) ==
    LET m == NumberedHeadingAt(text, p, n, {}, {}, 60)
    IN  SubSeq(HeadingMarker(n + 1), 3, n + 4) \o SubSeq(text, p, m.dots - 1) \o <<" ">>
            \o SubSeq(text, m.title, m.stop - 1)

\* C13: insert_structure writes a sub-sub-section heading "A.B.C. Title" as
\* "#### A.B.C. Title" and a sub-section heading "A.B. Title" as
\* "### A.B. Title", whole, with no marker of a lower level for the inner
\* numbers "B.C." or "C.".
C13_HeadingLevels ==
    pc = "structured" =>
        \A p \in 1..Len(text) :
            /\ HeadingAt(3, p) => Contains(result, MarkedHeading(3, p))
            /\ HeadingAt(2, p) => Contains(result, MarkedHeading(2, p))

\* ------------------------------------------------------------------------
\* MetadataExtractor (src/md_formatter.py)
\* ------------------------------------------------------------------------
\* MetadataExtractor._FIELDS: the name of each field; its pattern is the
\* name (with \s* for its space), ":" and \s*
_FIELDS ==
    << <<"ko:bogoseo", " ", "ko:jakseongil">>,
       <<"ko:jakseongil">>,
       <<"ko:susin">>,
       <<"ko:juje">>,
       <<"ko:jakseongja">> >>

\* the pattern of field k at p: the index after the match, 0 without one
FieldPatternAt(s, p, k) ==
    LET colon == IF k = 1
                 THEN IF p <= Len(s) /\ s[p] = "ko:bogoseo"
                      THEN LET q == SkipSpace(s, p + 1)
                           IN  IF q <= Len(s) /\ s[q] = "ko:jakseongil" THEN q + 1 ELSE 0
                      ELSE 0
                 ELSE IF p <= Len(s) /\ s[p] = _FIELDS[k][1] THEN p + 1 ELSE 0
    IN  IF colon > 0 /\ colon <= Len(s) /\ s[colon] = ":" THEN SkipSpace(s, colon + 1) ELSE 0

\* pattern.search(s[from - 1:]) of field k: the index of the first match at
\* or after from, 0 without one
FieldSearch(s, from, k) ==
    LET M == {q \in from..Len(s) : FieldPatternAt(s, q, k) > 0}
    IN  IF M = {} THEN 0 ELSE Min(M)

\* the lookahead of _TITLE_RE at p: (?=작성일:|수신:|주제:|작성자:|\d+\.\s)
TitleLookahead(s, p) ==
    \/ /\ p + 1 <= Len(s)
       /\ s[p] \in {"ko:jakseongil", "ko:susin", "ko:juje", "ko:jakseongja"}
       /\ s[p + 1] = ":"
    \/ /\ p <= Len(s) /\ IsDigit(s[p])
       /\ LET q == SkipDigits(s, p)
          IN  q + 1 <= Len(s) /\ s[q] = "." /\ IsSpace(s[q + 1])

\* MetadataExtractor._TITLE_RE.match(s): where group 1 starts and where it
\* ends (the match ends there too), stop = 0 without a match.  \s* takes the
\* whitespace after "[보고서]" and gives it back one character at a time
\* while (.+?), which takes no line break, finds no end.
_TITLE_RE(s) ==
    IF ~MatchesAt(s, 1, <<"[", "ko:bogoseo", "]">>) THEN [start |-> 0, stop |-> 0]
    ELSE LET Stops(b) == {e \in (b + 1)..Len(s) :
                             /\ TitleLookahead(s, e)
                             /\ \A k \in b..(e - 1) : s[k] # "\n"}
             B == {b \in 4..SkipSpace(s, 4) : Stops(b) # {}}
         IN  IF B = {} THEN [start |-> 0, stop |-> 0]
             ELSE LET b == CHOOSE c \in B : \A d \in B : d <= c
                  IN  [start |-> b, stop |-> Min(Stops(b))]

\* [Hangul A-Za-z]
IsAlpha(c) == IsHangul(c) \/ IsUpper(c) \/ IsLower(c)

\* MetadataExtractor._GENERIC_LABEL_BOUNDARY_RE.search(s[from - 1:]): the
\* index of the first match at or after from, 0 without one
_GENERIC_LABEL_BOUNDARY_RE(s, from) ==
    LET Label(p) ==
            /\ IsAlpha(s[p])
            /\ \E q \in p..(Len(s) - 1) :
                   /\ s[q + 1] = ":"
                   /\ \A k \in (p + 1)..q : IsAlpha(s[k]) \/ IsDigit(s[k]) \/ IsSpace(s[k])
                   /\ CharCount(SubSeq(s, p, q)) - 1 <= 20
        M == {p \in from..Len(s) : Label(p)}
    IN  IF M = {} THEN 0 ELSE Min(M)

\* re.search(r"\d+\.\s+[Hangul A-Z]", s[from - 1:]): the index of the first
\* match at or after from, 0 without one
HeadingBoundary(s, from) ==
    LET Starts(p) ==
            /\ IsDigit(s[p])
            /\ LET q == SkipDigits(s, p)
               IN  /\ q + 1 <= Len(s) /\ s[q] = "." /\ IsSpace(s[q + 1])
                   /\ LET t == SkipSpace(s, q + 1)
                      IN  t <= Len(s) /\ (IsHangul(s[t]) \/ IsUpper(s[t]))
        M == {p \in from..Len(s) : Starts(p)}
    IN  IF M = {} THEN 0 ELSE Min(M)

\* metadata[key] = value for a dict kept as a function
DictPut(dict, key, value) ==
    [k \in DOMAIN dict \cup {key} |-> IF k = key THEN value ELSE dict[k]]

\* the key of field k in the metadata dict
FieldKey(k) == IF k = 1 THEN "ko:bogoseo jakseongil" ELSE _FIELDS[k][1]

\* MetadataExtractor.extract, the loop over _FIELDS from field k on
RECURSIVE ExtractFields(_, _, _)
ExtractFields(dict, rest, k) ==
    IF k > Len(_FIELDS) THEN [metadata |-> dict, remaining |-> Strip(rest)]
    ELSE LET at == FieldSearch(rest, 1, k)
         IN  IF at = 0 THEN ExtractFields(dict, rest, k + 1)
             ELSE LET start == FieldPatternAt(rest, at, k)
                      bounds == {FieldSearch(rest, start, j) : j \in 1..Len(_FIELDS)}
                                    \cup {HeadingBoundary(rest, start),
                                          _GENERIC_LABEL_BOUNDARY_RE(rest, start)}
                      stop == Min((bounds \ {0}) \cup {Len(rest) + 1})
                      value == Strip(SubSeq(rest, start, stop - 1))
                  IN  The({ExtractFields(DictPut(dict, FieldKey(k), value), next, k + 1) :
                              next \in {SubSeq(rest, 1, at - 1)
                                            \o SubSeq(rest, stop, Len(rest))}})

\* MetadataExtractor.extract
extract(s) ==
    LET m == _TITLE_RE(s)
    IN  IF m.stop > 0
        THEN The({ExtractFields(DictPut(<<>>, "title", Strip(SubSeq(s, m.start, m.stop - 1))),
                                rest, 1) :
                     rest \in {SubSeq(s, m.stop, Len(s))}})
        ELSE ExtractFields(<<>>, s, 1)

\* MetadataExtractor.to_frontmatter: field_mapping, in its order
field_mapping ==
    << <<"ko:juje", "subtitle">>,
       <<"ko:jakseongil", "date">>,
       <<"ko:bogoseo jakseongil", "date">>,
       <<"ko:susin", "recipient">>,
       <<"ko:jakseongja", "analyst">> >>

\* f'{key}: "{value}"' with the quotes of the value escaped
FieldLine(key, value) ==
    <<key, ":", " ", "\"">> \o Replace(value, "\"", <<"\\", "\"">>) \o <<"\"">>

\* MetadataExtractor.to_frontmatter
to_frontmatter(dict) ==
    IF DOMAIN dict = {} THEN <<>>
    ELSE LET marker == <<"-", "-", "-">>
             title == IF "title" \in DOMAIN dict
                      THEN << FieldLine("title", dict["title"]) >>
                      ELSE <<>>
             Field(k) == IF field_mapping[k][1] \in DOMAIN dict
                         THEN << FieldLine(field_mapping[k][2],
                                                 dict[field_mapping[k][1]]) >>
                         ELSE <<>>
             fields == Flatten([k \in 1..Len(field_mapping) |-> Field(k)])
         IN  Join(<<marker>> \o title \o fields \o <<marker>>, "\n")

\* ------------------------------------------------------------------------
\* format_markdown, the full reflow (src/md_formatter.py)
\* ------------------------------------------------------------------------
\* the lookbehind of insert_breaks: (?<=[Hangul a-zA-Z0-9.%)\]])
IsContentChar(c) == IsAlpha(c) \/ IsDigit(c) \/ c \in {".", "%", ")", "]"}

\* re.sub(pattern, r"\n\n- \1", result) for one label
InsertBreak(s, label) ==
    LET pattern == Append(label, ":")
        Breaks(q) == q > 1 /\ MatchesAt(s, q, pattern) /\ IsContentChar(s[q - 1])
    IN  Flatten([ix \in 1..Len(s) |->
                    IF Breaks(ix) THEN <<"\n", "\n", "-", " ", s[ix]>> ELSE <<s[ix]>>])

RECURSIVE InsertBreaksFrom(_, _)
InsertBreaksFrom(s, k) ==
    IF Len(s) = 0 \/ k > Len(_LABELS) THEN s
    ELSE The({InsertBreaksFrom(next, k + 1) : next \in {InsertBreak(s, _LABELS[k])}})

\* ColonLabelDetector.insert_breaks
insert_breaks(s) == InsertBreaksFrom(s, 1)

\* the end of the run of "#" that starts at p
LeadingHashesEnd(s, p) == p + LeadingHashes(SubSeq(s, p, Len(s)))

\* the end of the line marker that can stand at p, 0 without one:
\* #{1,4}\s, \$\$, >\s or -\s
MarkerEnd(kind, s, p) ==
    CASE kind = "heading" ->
             LET q == LeadingHashesEnd(s, p)
             IN  IF q > p /\ q - p <= 4 /\ q <= Len(s) /\ IsSpace(s[q]) THEN q ELSE 0
      [] kind = "equation" ->
             IF p + 1 <= Len(s) /\ s[p] = "$" /\ s[p + 1] = "$" THEN p + 1 ELSE 0
      [] kind = "quote" ->
             IF p + 1 <= Len(s) /\ s[p] = ">" /\ IsSpace(s[p + 1]) THEN p + 1 ELSE 0
      [] kind = "bullet" ->
             IF p + 1 <= Len(s) /\ s[p] = "-" /\ IsSpace(s[p + 1]) THEN p + 1 ELSE 0

\* r"([^\n])\n(marker)" at p: the last index of the match, 0 without one
SingleBreakAt(kind, s, p) ==
    IF p + 2 <= Len(s) /\ s[p] # "\n" /\ s[p + 1] = "\n" THEN MarkerEnd(kind, s, p + 2)
    ELSE 0

\* the line breaks of the leftmost matches of r"([^\n])\n(marker)" that do
\* not overlap, from p on
RECURSIVE SingleBreaks(_, _, _)
SingleBreaks(kind, s, p) ==
    IF p > Len(s) THEN {}
    ELSE LET e == SingleBreakAt(kind, s, p)
         IN  IF e > 0 THEN {p + 1} \cup SingleBreaks(kind, s, e + 1)
             ELSE SingleBreaks(kind, s, p + 1)

\* re.sub(r"([^\n])\n(marker)", r"\1\n\n\2", text)
BlankLineBefore(kind, s) ==
    LET B == SingleBreaks(kind, s, 1)
    IN  Flatten([ix \in 1..Len(s) |-> IF ix \in B THEN <<"\n", "\n">> ELSE <<s[ix]>>])

\* the line breaks of the leftmost matches of r"(\$\$)\n([^\n])" that do
\* not overlap, from p on
RECURSIVE BreaksAfterEquation(_, _)
BreaksAfterEquation(s, p) ==
    IF p > Len(s) THEN {}
    ELSE IF /\ p + 3 <= Len(s) /\ s[p] = "$" /\ s[p + 1] = "$"
            /\ s[p + 2] = "\n" /\ s[p + 3] # "\n"
         THEN {p + 2} \cup BreaksAfterEquation(s, p + 4)
         ELSE BreaksAfterEquation(s, p + 1)

\* re.sub(r"(\$\$)\n([^\n])", r"\1\n\n\2", text)
BlankLineAfterEquation(s) ==
    LET B == BreaksAfterEquation(s, 1)
    IN  Flatten([ix \in 1..Len(s) |-> IF ix \in B THEN <<"\n", "\n">> ELSE <<s[ix]>>])

\* "\n".join(line.rstrip() for line in text.split("\n")): the whitespace
\* that only whitespace separates from the end of its line goes
TrimLines(s) ==
    LET Trailing(ix) ==
            /\ s[ix] # "\n" /\ IsSpace(s[ix])
            /\ \E e \in ix..Len(s) :
                   /\ e = Len(s) \/ s[e + 1] = "\n"
                   /\ \A k \in ix..e : IsSpace(s[k]) /\ s[k] # "\n"
    IN  Flatten([ix \in 1..Len(s) |-> IF Trailing(ix) THEN <<>> ELSE <<s[ix]>>])

\* text.replace("\r\n", "\n").replace("\r", "\n")
NormalizeLineEndings(s) ==
    Replace(ReplaceSeq(s, 1, <<"\r", "\n">>, <<"\n">>), "\r", <<"\n">>)

\* _cleanup: each step works on the text the step before it returned
_cleanup(s) ==
    The({ Strip(trimmed) :
            trimmed \in { TrimLines(bullets) :
              bullets \in { BlankLineBefore("bullet", quotes) :
                quotes \in { BlankLineBefore("quote", after) :
                  after \in { BlankLineAfterEquation(before) :
                    before \in { BlankLineBefore("equation", headings) :
                      headings \in { BlankLineBefore("heading", blank) :
                        blank \in { CollapseBlankLines(endings) :
                          endings \in { NormalizeLineEndings(s) } } } } } } } } })

MaxReflowPieces == 3

\* numbered major sections: the number, the title and the sentence that
\* follows the title directly
Sections ==
    << [number |-> <<"1">>, title |-> <<"ko:seoron">>,
        sentence |-> <<"ko:i", " ", "ko:bogoseoneun", " ", "ko:bunseogeul", " ",
                       "ko:jegonghamnida", ".">>],
       [number |-> <<"2">>, title |-> <<"ko:bollon">>,
        sentence |-> <<"ko:juyo", " ", "ko:naeyongimnida", ".">>] >>

\* a section as the single-line text has it: "1. " and the title, glued to
\* the sentence
SectionText(k) ==
    Sections[k].number \o <<".", " ">> \o Sections[k].title \o Sections[k].sentence

\* the pieces the texts given to format_markdown are made of: two numbered
\* sections with their sentences, two labels with their values, the report
\* header, two metadata fields, bold and math spans, a placeholder written
\* in the text, and separators
ReflowPieces ==
    { SectionText(1),
      SectionText(2),
      <<"ko:gajeong", ":", "ko:yeon", " ", "ko:maechul", " ", "2", "ko:jo", " ", "ko:won">>,
      <<"ko:teurigeo", " ", "ko:yogeon", ":", "DSCR", " ", "1", ".", "2", "x">>,
      <<"[", "ko:bogoseo", "]", " ">>,
      <<"ko:susin", ":">>,
      <<"ko:juje", ":">>,
      <<"*", "*", "ko:jemok", "*", "*">>,
      <<"$", "x", "$">>,
      <<"$", "$", "x", "$", "$">>,
      <<"__BOLD_0__">>,
      <<" ">>,
      <<"x">> }

InitReflow ==
    /\ pc = "input"
    /\ \E pieces \in SeqsUpTo(ReflowPieces, MaxReflowPieces) : text = Flatten(pieces)
    /\ result = text
    /\ _block_store = <<>> /\ _inline_store = <<>> /\ _store = <<>>
    /\ runs = <<>> /\ outputs = <<>> /\ frontmatter = <<>>
    /\ NonTextIdle

\* format_markdown, step 1: latex_protector.protect(result), for a text of
\* at most 20 line breaks
ProtectLaTeX ==
    /\ pc = "input"
    /\ LineCount(result) <= LIGHT_LINE_COUNT
    /\ LET b == _protect_block(result, <<>>)
           n == _protect_inline(b.text, <<>>)
       IN  /\ result' = n.text
           /\ _block_store' = b.store
           /\ _inline_store' = n.store
    /\ pc' = "step1"
    /\ UNCHANGED <<text, _store, runs, outputs, frontmatter, nonTextVars>>

\* step 2: bold_protector.protect(result)
ProtectBold ==
    /\ pc = "step1"
    /\ LET b == BoldProtector_protect(result, <<>>)
       IN  result' = b.text /\ _store' = b.store
    /\ pc' = "step2"
    /\ UNCHANGED <<text, _block_store, _inline_store, runs, outputs, frontmatter,
                   nonTextVars>>

\* step 3: normalize_colon_spacing_global, then normalize_colon_spacing
NormalizeColonSpacing ==
    /\ pc = "step2"
    /\ result' = normalize_colon_spacing(normalize_colon_spacing_global(result))
    /\ pc' = "step3"
    /\ UNCHANGED <<text, _block_store, _inline_store, _store, runs, outputs, frontmatter,
                   nonTextVars>>

\* step 4: metadata, result = MetadataExtractor.extract(result) and
\* frontmatter = MetadataExtractor.to_frontmatter(metadata)
ExtractMetadata ==
    /\ pc = "step3"
    /\ LET e == extract(result)
       IN  /\ result' = e.remaining
           /\ frontmatter' = to_frontmatter(e.metadata)
    /\ pc' = "step4"
    /\ UNCHANGED <<text, _block_store, _inline_store, _store, runs, outputs, nonTextVars>>

\* step 5: StructureDetector.insert_structure(result)
InsertStructuralBreaks ==
    /\ pc = "step4"
    /\ result' = insert_structure(result)
    /\ pc' = "step5"
    /\ UNCHANGED <<text, _block_store, _inline_store, _store, runs, outputs, frontmatter,
                   nonTextVars>>

\* step 6: ColonLabelDetector.insert_breaks(result)
InsertLabelBreaks ==
    /\ pc = "step5"
    /\ result' = insert_breaks(result)
    /\ pc' = "step6"
    /\ UNCHANGED <<text, _block_store, _inline_store, _store, runs, outputs, frontmatter,
                   nonTextVars>>

\* step 7: bold_protector.restore(result)
RestoreBold ==
    /\ pc = "step6"
    /\ result' = BoldProtector_restore(result, _store)
    /\ pc' = "step7"
    /\ UNCHANGED <<text, _block_store, _inline_store, _store, runs, outputs, frontmatter,
                   nonTextVars>>

\* step 8: latex_protector.restore(result)
RestoreLaTeX ==
    /\ pc = "step7"
    /\ result' = LaTeXProtector_restore(result, _block_store, _inline_store)
    /\ pc' = "step8"
    /\ UNCHANGED <<text, _block_store, _inline_store, _store, runs, outputs, frontmatter,
                   nonTextVars>>

\* step 9: _cleanup(result)
CleanUp ==
    /\ pc = "step8"
    /\ result' = _cleanup(result)
    /\ pc' = "step9"
    /\ UNCHANGED <<text, _block_store, _inline_store, _store, runs, outputs, frontmatter,
                   nonTextVars>>

\* step 10: the frontmatter, when there is one, goes before the result,
\* which is returned
PrependFrontmatter ==
    /\ pc = "step9"
    /\ result' = IF frontmatter # <<>> THEN frontmatter \o <<"\n", "\n">> \o result
                 ELSE result
    /\ outputs' = Append(outputs, result')
    /\ pc' = "returned"
    /\ UNCHANGED <<text, _block_store, _inline_store, _store, runs, frontmatter,
                   nonTextVars>>

NextReflow ==
    \/ ProtectLaTeX \/ ProtectBold \/ NormalizeColonSpacing \/ ExtractMetadata
    \/ InsertStructuralBreaks \/ InsertLabelBreaks \/ RestoreBold \/ RestoreLaTeX
    \/ CleanUp \/ PrependFrontmatter

SpecReflow == InitReflow /\ [][NextReflow]_vars

\* "\n\n".join(blocks)
JoinBlocks(blocks) ==
    Flatten([k \in 1..Len(blocks) |->
                IF k = 1 THEN blocks[k] ELSE <<"\n", "\n">> \o blocks[k]])

\* ------------------------------------------------------------------------
\* The two protectors of format_markdown, one after the other
\* ------------------------------------------------------------------------
MaxComposeLen == 9

ComposeAlphabet == {"$", "*", "a"}

InitCompose ==
    /\ pc = "input"
    /\ text \in SeqsUpTo(ComposeAlphabet, MaxComposeLen)
    /\ result = text
    /\ _block_store = <<>> /\ _inline_store = <<>> /\ _store = <<>>
    /\ runs = <<>> /\ outputs = <<>> /\ frontmatter = <<>>
    /\ NonTextIdle

\* bold_protector.protect(result) on the text latex_protector.protect
\* returned
BoldProtectSecond ==
    /\ pc = "latex_protected"
    /\ LET b == BoldProtector_protect(result, _store)
       IN  result' = b.text /\ _store' = b.store
    /\ pc' = "both_protected"
    /\ UNCHANGED <<text, _block_store, _inline_store, runs, outputs, frontmatter,
                   nonTextVars>>

\* bold_protector.restore(result), the first of the two restores
BoldRestoreFirst ==
    /\ pc = "both_protected"
    /\ result' = BoldProtector_restore(result, _store)
    /\ pc' = "bold_restored_first"
    /\ UNCHANGED <<text, _block_store, _inline_store, _store, runs, outputs, frontmatter,
                   nonTextVars>>

\* latex_protector.restore(result), the second of the two restores
LaTeXRestoreSecond ==
    /\ pc = "bold_restored_first"
    /\ result' = LaTeXProtector_restore(result, _block_store, _inline_store)
    /\ pc' = "both_restored"
    /\ UNCHANGED <<text, _block_store, _inline_store, _store, runs, outputs, frontmatter,
                   nonTextVars>>

NextCompose == LaTeXProtect \/ BoldProtectSecond \/ BoldRestoreFirst \/ LaTeXRestoreSecond

SpecCompose == InitCompose /\ [][NextCompose]_vars

\* ------------------------------------------------------------------------
\* ColonLabelDetector.normalize_colon_spacing_global on its own
\* ------------------------------------------------------------------------
MaxColonLen == 6

ColonAlphabet == {":", "a", "1", "/", "\\", " ", "*"}

InitColon ==
    /\ pc = "input"
    /\ text \in SeqsUpTo(ColonAlphabet, MaxColonLen)
    /\ result = text
    /\ _block_store = <<>> /\ _inline_store = <<>> /\ _store = <<>>
    /\ runs = <<>> /\ outputs = <<>> /\ frontmatter = <<>>
    /\ NonTextIdle

\* result = ColonLabelDetector.normalize_colon_spacing_global(result)
NormalizeColonGlobal ==
    /\ pc = "input"
    /\ result' = normalize_colon_spacing_global(result)
    /\ pc' = "colons_normalized"
    /\ UNCHANGED <<text, _block_store, _inline_store, _store, runs, outputs, frontmatter,
                   nonTextVars>>

NextColon == NormalizeColonGlobal

SpecColon == InitColon /\ [][NextColon]_vars

\* ------------------------------------------------------------------------
\* DeepResearchCleaner (src/deep_md_cleaner.py)
\* ------------------------------------------------------------------------
\* the private-use characters are written as the tokens "u+e200", ...
MARKER_START == "u+e200"
MARKER_END == "u+e201"
MARKER_SEPARATOR == "u+e202"

\* PUA_RANGE_RE, [\ue200-\ue20f]; of the thirteen characters that are no
\* marker the texts of the model hold \ue20a
PUA_RANGE_RE(c) == c \in {MARKER_START, MARKER_END, MARKER_SEPARATOR, "u+e20a"}

\* the tags of the model, one token each
TagAtoms == {"cite", "CITE", "entity", "image_group", "widget"}

\* [a-zA-Z_] and [a-zA-Z0-9_]
IsTagStart(c) == IsUpper(c) \/ IsLower(c) \/ c \in TagAtoms \/ c = "_"
IsTagChar(c) == IsTagStart(c) \/ IsDigit(c)

\* the end of the run of tag characters that starts at p
RECURSIVE SkipTag(_, _)
SkipTag(s, p) == IF p <= Len(s) /\ IsTagChar(s[p]) THEN SkipTag(s, p + 1) ELSE p

\* _MARKER_BLOCK_RE.match(s, p - 1): group 1, group 2 and the index of the
\* closing marker, which is 0 when there is no match; the tag runs up to the
\* separator and the payload, (.*?) with DOTALL, up to the first closing marker
_MARKER_BLOCK_RE(s, p) ==
    LET q == SkipTag(s, p + 1)
        e == FirstIndex(s, q + 1, MARKER_END)
    IN  IF /\ s[p] = MARKER_START
           /\ p + 1 <= Len(s) /\ IsTagStart(s[p + 1])
           /\ q <= Len(s) /\ s[q] = MARKER_SEPARATOR
           /\ e <= Len(s)
        THEN [tag |-> SubSeq(s, p + 1, q - 1), payload |-> SubSeq(s, q + 1, e - 1),
              stop |-> e]
        ELSE [tag |-> <<>>, payload |-> <<>>, stop |-> 0]

\* DeepResearchCleaner.detect
detect(s) == \E p \in 1..Len(s) : _MARKER_BLOCK_RE(s, p).stop > 0

\* sep.join(parts) for a separator of several characters
RECURSIVE JoinSeq(_, _)
JoinSeq(parts, sep) ==
    IF parts = <<>> THEN <<>>
    ELSE IF Len(parts) = 1 THEN parts[1]
    ELSE parts[1] \o sep \o JoinSeq(Tail(parts), sep)

\* str(num)
RECURSIVE Decimal(_)
Decimal(n) ==
    LET digit == <<"0", "1", "2", "3", "4", "5", "6", "7", "8", "9">>
    IN  IF n < 10 THEN <<digit[n + 1]>>
        ELSE Decimal(n \div 10) \o <<digit[(n % 10) + 1]>>

\* payload.split(): the runs of characters that are not whitespace
RECURSIVE Words(_, _, _)
Words(s, p, cur) ==
    IF p > Len(s) THEN (IF cur = <<>> THEN <<>> ELSE <<cur>>)
    ELSE IF IsSpace(s[p])
         THEN (IF cur = <<>> THEN <<>> ELSE <<cur>>) \o Words(s, p + 1, <<>>)
         ELSE Words(s, p + 1, Append(cur, s[p]))

\* " ".join(payload.split())
Compact(payload) == Join(Words(payload, 1, <<>>), " ")

\* the number of sid in footnotes, 0 when it is not a key
FootnoteOf(fn, sid) ==
    LET K == {k \in 1..Len(fn) : fn[k].source_id = sid}
    IN  IF K = {} THEN 0 ELSE fn[Min(K)].num

\* _handle_cite, the loop over ids in footnote mode: the references so far,
\* and the footnotes
RECURSIVE CiteRefs(_, _, _)
CiteRefs(ids, fn, refs) ==
    IF ids = <<>> THEN [text |-> refs, footnotes |-> fn]
    ELSE The({CiteRefs(Tail(ids), next,
                       refs \o <<"[", "^">> \o Decimal(FootnoteOf(next, Head(ids))) \o <<"]">>) :
              next \in {IF FootnoteOf(fn, Head(ids)) = 0
                        THEN Append(fn, [source_id |-> Head(ids), num |-> Len(fn) + 1])
                        ELSE fn}})

\* DeepResearchCleaner._handle_cite: the replacement and the footnotes
_handle_cite(payload, fn, cite_mode) ==
    LET tokens == Split(payload, 1, MARKER_SEPARATOR, <<>>)
        stripped == [k \in 1..Len(tokens) |-> Strip(tokens[k])]
        split_ids == SelectSeq(stripped, LAMBDA t : t # <<>>)
        ids == IF split_ids = <<>> /\ Strip(payload) # <<>>
               THEN <<Strip(payload)>> ELSE split_ids
    IN  IF cite_mode = "strip" THEN [text |-> <<>>, footnotes |-> fn]
        ELSE IF cite_mode = "inline"
        THEN [text |-> IF ids = <<>> THEN <<>>
                       ELSE <<" ", "(", "sources", ":", " ">>
                            \o JoinSeq(ids, <<",", " ">>) \o <<")">>,
              footnotes |-> fn]
        ELSE CiteRefs(ids, fn, <<>>)

\* DeepResearchCleaner._handle_entity, for a payload that json.loads rejects:
\* no payload of the model is JSON text
_handle_entity(payload) == Compact(payload)

\* DeepResearchCleaner._handle_image_group, for a payload that json.loads
\* rejects
_handle_image_group(payload) ==
    <<"\n", "<!--", " ", "image_group", " ", "removed", " ", "-->", "\n">>

\* compact[:240], for a cut that falls between two tokens
RECURSIVE Truncate(_, _)
Truncate(s, n) ==
    IF s = <<>> \/ TokenWidth(Head(s)) > n THEN <<>>
    ELSE <<Head(s)>> \o Truncate(Tail(s), n - TokenWidth(Head(s)))

\* DeepResearchCleaner._handle_unknown
_handle_unknown(tag, payload, drop_unknown_markers) ==
    LET compact == IF CharCount(Compact(payload)) > 240
                   THEN Truncate(Compact(payload), 240) \o <<".", ".", ".">>
                   ELSE Compact(payload)
    IN  IF drop_unknown_markers THEN <<>>
        ELSE <<"<!--", " ">> \o tag \o <<":", " ">> \o compact \o <<" ", "-->">>

\* replace_block(match) in clean: the replacement, the footnotes and the
\* report after it
replace_block(m, fn, rep, cfg) ==
    LET tag == LowerStr(Strip(m.tag))
    IN  IF tag = <<"cite">>
        THEN LET handled == _handle_cite(m.payload, fn, cfg.cite_mode)
             IN  [text |-> handled.text, footnotes |-> handled.footnotes,
                  report |-> [rep EXCEPT !.cite_markers = @ + 1]]
        ELSE IF tag = <<"entity">>
        THEN [text |-> _handle_entity(m.payload), footnotes |-> fn,
              report |-> [rep EXCEPT !.entity_markers = @ + 1]]
        ELSE IF tag = <<"image_group">>
        THEN [text |-> _handle_image_group(m.payload), footnotes |-> fn,
              report |-> [rep EXCEPT !.image_group_markers = @ + 1]]
        ELSE [text |-> _handle_unknown(tag, m.payload, cfg.drop_unknown_markers),
              footnotes |-> fn,
              report |-> [rep EXCEPT !.unknown_markers = @ + 1]]

\* _MARKER_BLOCK_RE.sub(replace_block, text) from position p on: the text
\* so far, the footnotes and the report
RECURSIVE SubBlocks(_, _, _, _)
SubBlocks(s, p, acc, cfg) ==
    IF p > Len(s) THEN acc
    ELSE IF _MARKER_BLOCK_RE(s, p).stop = 0
         THEN The({SubBlocks(s, p + 1, next, cfg) :
                   next \in {[acc EXCEPT !.text = Append(@, s[p])]}})
         ELSE The({SubBlocks(s, _MARKER_BLOCK_RE(s, p).stop + 1, next, cfg) :
                   next \in {The({[r EXCEPT !.text = acc.text \o @] :
                                  r \in {replace_block(_MARKER_BLOCK_RE(s, p),
                                                       acc.footnotes, acc.report, cfg)}})}})

\* DeepResearchCleaner._append_citations
_append_citations(s, fn) ==
    LET lines_ == <<<<"#", "#", " ", "Citations">>>>
                  \o [k \in 1..Len(fn) |->
                        <<"[", "^">> \o Decimal(fn[k].num) \o <<"]", ":", " ">>
                        \o fn[k].source_id]
        block == Join(lines_, "\n")
        stripped == RStrip(s)
    IN  IF stripped = <<>> THEN block \o <<"\n">>
        ELSE stripped \o <<"\n", "\n">> \o block \o <<"\n">>

\* PUA_RANGE_RE.findall(s) and PUA_RANGE_RE.sub("", s)
Leftover(s) == SelectSeq(s, PUA_RANGE_RE)
RemoveLeftover(s) == SelectSeq(s, LAMBDA c : ~PUA_RANGE_RE(c))

MaxCleanPieces == 3

\* the values of CleanerConfig.activation_mode and CleanerConfig.cite_mode:
\* those that clean accepts and one more of each
ActivationModes == {"off", "auto", "on", "ON"}
CiteModes == {"footnote", "inline", "strip", "none"}

\* a marker block of a tag and a payload
Marker(tag, payload) == <<MARKER_START, tag, MARKER_SEPARATOR>> \o payload \o <<MARKER_END>>

CleanPieces ==
    { <<"x">>,
      Marker("cite", <<"a">>),
      Marker("cite", <<"a", MARKER_SEPARATOR, "b">>),
      Marker("cite", <<"b", MARKER_SEPARATOR, " ", "a">>),
      Marker("CITE", <<"a", "u+e20a">>),
      Marker("cite", <<MARKER_SEPARATOR>>),
      Marker("widget", <<"a", " ", " ", "b">>),
      Marker("entity", <<"a", "\n", "b">>),
      Marker("image_group", <<"a">>),
      <<"u+e20a">> }

\* DeepResearchCleaner(config).clean(text) has been called
InitClean ==
    /\ pc = "clean"
    /\ \E pieces \in SeqsUpTo(CleanPieces, MaxCleanPieces) : text = Flatten(pieces)
    /\ config \in [activation_mode : ActivationModes, cite_mode : CiteModes,
                   drop_unknown_markers : BOOLEAN]
    /\ footnotes = <<>> /\ report = CleanerReport
    /\ result = <<>>
    /\ _block_store = <<>> /\ _inline_store = <<>> /\ _store = <<>>
    /\ runs = <<>> /\ outputs = <<>> /\ frontmatter = <<>>
    /\ lines = <<>> /\ warnings = <<>> /\ TableIdle /\ ParserIdle /\ FrontIdle
    /\ StructureIdle /\ RenderIdle

\* what clean does not touch
cleanOthers ==
    <<text, config, _block_store, _inline_store, _store, runs, frontmatter, lines,
      tableVars, warnings, parserVars, frontmatter_lines, content_start_idx,
      parsed_data, metadata, remaining, structureVars, renderVars>>

\* the checks of clean with the cite mode left unchecked in mode off
ModeError_OffUnchecked(cfg) ==
    IF cfg.activation_mode \notin {"off", "auto", "on"}
    THEN "ValueError: activation_mode must be one of: off, auto, on"
    ELSE IF cfg.activation_mode # "off" /\ cfg.cite_mode \notin {"footnote", "inline", "strip"}
    THEN "ValueError: cite_mode must be one of: footnote, inline, strip"
    ELSE "None"

\* the two checks of clean: the message of the ValueError raised, "None"
\* when the modes are accepted
ModeError(cfg) ==
    IF cfg.activation_mode \notin {"off", "auto", "on"}
    THEN "ValueError: activation_mode must be one of: off, auto, on"
    ELSE IF cfg.cite_mode \notin {"footnote", "inline", "strip"}
    THEN "ValueError: cite_mode must be one of: footnote, inline, strip"
    ELSE "None"

\* clean: the report is made, and the two modes are checked
CheckModes ==
    /\ pc = "clean"
    /\ report' = [CleanerReport EXCEPT !.activation_mode = config.activation_mode,
                                       !.original_size = CharCount(text),
                                       !.cleaned_size = CharCount(text)]
    /\ exception' = ModeError(config)
    /\ pc' = IF exception' = "None" THEN "checked" ELSE "raised"
    /\ UNCHANGED <<result, outputs, footnotes, cleanOthers>>

\* report.markers_detected = self.detect(text); the text is returned as it
\* is in mode off, and in mode auto without markers
DetectMarkers ==
    /\ pc = "checked"
    /\ LET markers_detected == detect(text)
           returns == \/ config.activation_mode = "off"
                      \/ config.activation_mode = "auto" /\ ~markers_detected
       IN  /\ report' = [report EXCEPT !.markers_detected = markers_detected,
                                       !.applied = ~returns]
           /\ result' = IF returns THEN text ELSE result
           /\ outputs' = IF returns THEN Append(outputs, text) ELSE outputs
           /\ pc' = IF returns THEN "returned" ELSE "applied"
    /\ UNCHANGED <<exception, footnotes, cleanOthers>>

\* footnotes = OrderedDict(); cleaned = self._MARKER_BLOCK_RE.sub(replace_block, text)
ReplaceBlocks ==
    /\ pc = "applied"
    /\ LET done == SubBlocks(text, 1,
                             [text |-> <<>>, footnotes |-> <<>>, report |-> report],
                             config)
       IN  /\ result' = done.text
           /\ footnotes' = done.footnotes
           /\ report' = done.report
    /\ pc' = "replaced"
    /\ UNCHANGED <<exception, outputs, cleanOthers>>

\* if self.config.cite_mode == "footnote" and footnotes: the citations are
\* appended
AppendCitations ==
    /\ pc = "replaced"
    /\ IF config.cite_mode = "footnote" /\ footnotes # <<>>
       THEN /\ report' = [report EXCEPT !.footnotes_emitted = Len(footnotes)]
            /\ result' = _append_citations(result, footnotes)
       ELSE UNCHANGED <<report, result>>
    /\ pc' = "appended"
    /\ UNCHANGED <<exception, outputs, footnotes, cleanOthers>>

\* the private-use characters left are removed, the report is completed and
\* the cleaned text is returned
ReturnCleaned ==
    /\ pc = "appended"
    /\ result' = IF Leftover(result) # <<>> THEN RemoveLeftover(result) ELSE result
    /\ report' = [report EXCEPT !.leftover_pua_removed =
                                    IF Leftover(result) # <<>>
                                    THEN Len(Leftover(result)) ELSE @,
                                !.cleaned_size = CharCount(result'),
                                !.was_modified = (result' # text)]
    /\ outputs' = Append(outputs, result')
    /\ pc' = "returned"
    /\ UNCHANGED <<exception, footnotes, cleanOthers>>

NextClean ==
    \/ CheckModes \/ DetectMarkers \/ ReplaceBlocks \/ AppendCitations
    \/ ReturnCleaned

SpecClean == InitClean /\ [][NextClean]_vars

\* ------------------------------------------------------------------------
\* FootnoteParser.extract_references and the element parser on more lines
\* ------------------------------------------------------------------------
MaxWideLines == 2
MaxRefLines == 3

\* FootnoteParser.REFERENCE_KEYWORDS
REFERENCE_KEYWORDS ==
    {"works cited", "references", "sources", "citations", "ko:chamgomunheon", "ko:chulcheo"}

\* one turn of the loop of FootnoteParser.extract_references, at line k
\* (counted from 1): references is the dict as a set of pairs of a number
\* and a text, entered[j] is in_references when the loop comes to line j,
\* and recorded holds the lines that gave an entry of the dict
ReferenceLine(ls, k, acc) ==
    LET stripped == Strip(ls[k])
        here == [acc EXCEPT !.entered = Append(@, acc.in_references)]
        p == SkipDigits(stripped, 1)
        ref_num == DigitsValue(SubSeq(stripped, 1, p - 1))
        ref_text == Strip(SubSeq(stripped, SkipSpace(stripped, p + 1), Len(stripped)))
    IN  IF ContainsAny(stripped, REFERENCE_KEYWORDS)
        THEN [here EXCEPT !.in_references = TRUE]
        ELSE IF ~acc.in_references THEN here
        ELSE IF REFERENCE_PATTERN(stripped)
        THEN [here EXCEPT
                !.references = {r \in @ : r[1] # ref_num} \cup {<<ref_num, ref_text>>},
                !.recorded = @ \cup {k}]
        ELSE IF stripped = <<>> THEN here
        ELSE [here EXCEPT !.in_references = FALSE]

\* the turns of the loop at the lines a..b in their order, the first half
\* of the lines before the second
RECURSIVE ExtractReferencesFrom(_, _, _, _)
ExtractReferencesFrom(ls, a, b, acc) ==
    IF a > b THEN acc
    ELSE IF a = b THEN The({ReferenceLine(ls, a, before) : before \in {acc}})
    ELSE The({ExtractReferencesFrom(ls, (a + b) \div 2 + 1, b, half) :
              half \in {ExtractReferencesFrom(ls, a, (a + b) \div 2, acc)}})

\* FootnoteParser.extract_references
extract_references(ls) ==
    ExtractReferencesFrom(ls, 1, Len(ls), [in_references |-> FALSE, references |-> {},
                                           entered |-> <<>>, recorded |-> {}])

\* more lines for the element parser: images without a source or with too
\* little data, numbered lines at the limits of the heading heuristic, and
\* a reference keyword in a quote and in a table
WideLines ==
    {<<"!", "[", "x", "]", "(", ")">>,
     <<"!", "[", "x", "]", "(", DATA_URI, "A", "A", ")">>,
     <<"2", "1", ".", " ", "x">>,
     <<"2", "0", ".", " ", "x">>,
     <<"1", ".", " ", "x", "-", "x">>,
     <<"1", ".", " ", "1", "x">>,
     <<"1", ".", " ", FORTY_LETTERS>>,
     <<"1", ".", " ", "x", FORTY_LETTERS>>,
     <<"1", ".", " ", "ko:jemok">>,
     <<">", " ", "references">>,
     <<"|", "references", "|">>,
     <<">", " ", "!", "[", "x", "]", "(", DATA_URI, "A", "A">>}

WidePool == LinePool \cup WideLines

\* the number of lines by which a long document passes max_lookahead
MaxOver == 1

\* documents of an embedded image wrapped over about max_lookahead lines: the
\* first line of the image, n lines of data, and then nothing, the closing
\* line, or the closing line and a line of text
LongDocs ==
    {<<<<"!", "[", "x", "]", "(", DATA_URI, "A", "A">>>> \o [k \in 1..n |-> <<"A", "A">>] \o tail :
        n \in (max_lookahead - 2 - MaxOver)..(max_lookahead + MaxOver),
        tail \in {<<>>, <<<<"A", "A", ")">>>>, <<<<"A", "A", ")">>, <<"x">>>>}}

\* the lines of documents with a references section
RefPool ==
    {<<>>,
     <<"x">>,
     <<"#", " ", "x">>,
     <<"#", "#", " ", "references">>,
     <<"1", ".", " ", "x">>,
     <<">", " ", "x">>,
     <<">", " ", "references">>,
     <<" ", "|", "x", "|">>,
     <<"|", "references", "|">>,
     <<"$", "$", " ">>}

\* MarkdownParser.parse has called FootnoteParser.extract_references on the
\* lines and calls _parse_elements on the same lines
InitWide ==
    /\ pc = "main"
    /\ lines \in SeqsUpTo(WidePool, MaxWideLines) \cup SeqsUpTo(RefPool, MaxRefLines)
                    \cup LongDocs
    /\ ParserIdle /\ FrontIdle /\ CleanerIdle /\ StructureIdle /\ RenderIdle
    /\ warnings = <<>>
    /\ TableIdle /\ TextIdle

SpecWide == InitWide /\ [][NextElements]_vars

\* ------------------------------------------------------------------------
\* StructureDetector._insert_major_headings, match by match

\* the pieces a text given to _insert_major_headings is made of
MaxMajorPieces == 3

MajorPieces ==
    { <<"1", ".">>, <<" ">>, <<"ko:jemok">>, <<"ko:da">>, <<"x">>, <<".">>, <<"\n">>,
      <<"2", ".", " ", "A", "x">>,
      <<"1", ".", " ", "A", FORTY_LETTERS, "x", "x", "x", "x">> }

\* the members of a set of numbers in ascending order
RECURSIVE Ascending(_)
Ascending(S) ==
    IF S = {} THEN <<>>
    ELSE LET lo == CHOOSE x \in S : \A y \in S : x <= y
         IN  <<lo>> \o Ascending(S \ {lo})

\* list(cls.MAJOR_HEADING_RE.finditer(text)): the starts of the matches
finditer(s) == Ascending(HeadingMatches(2, s, 1))

\* reversed(matches), the order of a list kept as it is
reversed_Forward(ms) == ms

\* reversed(matches)
reversed(ms) == [k \in 1..Len(ms) |-> ms[Len(ms) + 1 - k]]

\* result[: m.start() + 1] + heading_text + result[m.end() :]
InsertHeading(res, s, p) ==
    SubSeq(res, 1, p) \o HeadingText(2, s, p)
        \o SubSeq(res, MAJOR_HEADING_RE(s, p).stop, Len(res))

\* _insert_major_headings(text) has been called
InitMajor ==
    /\ pc = "input"
    /\ \E pieces \in SeqsUpTo(MajorPieces, MaxMajorPieces) : text = Flatten(pieces)
    /\ result = <<>> /\ matches = <<>>
    /\ _block_store = <<>> /\ _inline_store = <<>> /\ _store = <<>>
    /\ runs = <<>> /\ outputs = <<>> /\ frontmatter = <<>>
    /\ lines = <<>> /\ warnings = <<>> /\ TableIdle /\ ParserIdle /\ FrontIdle
    /\ CleanerIdle /\ RenderIdle

majorOthers ==
    <<text, _block_store, _inline_store, _store, runs, outputs, frontmatter, lines,
      tableVars, warnings, parserVars, frontVars, cleanerVars, renderVars>>

\* matches = list(finditer(text)); if not matches: return text; result = text
FindMatches ==
    /\ pc = "input"
    /\ matches' = reversed(finditer(text))
    /\ result' = text
    /\ pc' = IF finditer(text) = <<>> THEN "returned" ELSE "loop"
    /\ UNCHANGED majorOthers

\* one pass of the loop body for the match m
ProcessMatch ==
    /\ pc = "loop" /\ matches # <<>>
    /\ LET m == Head(matches)
       IN  result' = IF MatchAccepted(result, text, m)
                     THEN InsertHeading(result, text, m)
                     ELSE result
    /\ matches' = Tail(matches)
    /\ UNCHANGED <<pc, majorOthers>>

\* return result
ReturnResult ==
    /\ pc = "loop" /\ matches = <<>>
    /\ pc' = "returned"
    /\ UNCHANGED <<result, matches, majorOthers>>

NextMajor == FindMatches \/ ProcessMatch \/ ReturnResult

SpecMajor == InitMajor /\ [][NextMajor]_vars

\* ------------------------------------------------------------------------
\* MetadataExtractor.extract on texts of labels and values

MaxExtractPieces == 4

\* the pieces a text given to extract is made of
ExtractPieces ==
    { <<"ko:susin", ":", " ">>, <<"ko:juje", ":", " ">>, <<"ko:jakseongil", ":">>,
      <<"ko:bogoseo", " ">>, <<"ko:jakseongja", ":">>, <<"ko:gajeong", ":">>,
      <<"ko:jemok">>, <<"2">>, <<"-">>, <<"1", ".", " ">>, <<" ">> }

\* MetadataExtractor.extract(text) has been called
InitExtract ==
    /\ pc = "input"
    /\ \E pieces \in SeqsUpTo(ExtractPieces, MaxExtractPieces) : text = Flatten(pieces)
    /\ result = <<>>
    /\ _block_store = <<>> /\ _inline_store = <<>> /\ _store = <<>>
    /\ runs = <<>> /\ outputs = <<>> /\ frontmatter = <<>>
    /\ NonTextIdle

\* return metadata, remaining.strip()
ExtractReturn ==
    /\ pc = "input"
    /\ metadata' = extract(text).metadata
    /\ remaining' = extract(text).remaining
    /\ pc' = "extracted"
    /\ UNCHANGED <<textVars, lines, tableVars, warnings, parserVars, cleanerVars,
                   structureVars, renderVars, frontmatter_lines, content_start_idx, parsed_data,
                   exception>>

NextExtract == ExtractReturn

SpecExtract == InitExtract /\ [][NextExtract]_vars

\* ------------------------------------------------------------------------
\* MarkdownRenderer (md_renderer.py)
\* ------------------------------------------------------------------------
\* An element is kept with the class of its content, which isinstance reads.

\* RenderConfig()
RenderConfig ==
    [include_frontmatter |-> TRUE, embed_images_base64 |-> FALSE, image_path_prefix |-> <<>>,
     table_alignment |-> TRUE, bold_marker |-> <<"*", "*">>, italic_marker |-> <<"*">>,
     strip_formatting |-> FALSE]

\* TextRunRenderer.render
TextRunRenderer_render(rs) ==
    IF RenderConfig.strip_formatting THEN Flatten([k \in 1..Len(rs) |-> rs[k].text])
    ELSE Flatten([k \in 1..Len(rs) |->
            LET b == IF rs[k].bold
                     THEN RenderConfig.bold_marker \o rs[k].text \o RenderConfig.bold_marker
                     ELSE rs[k].text
                it == IF rs[k].italic
                      THEN RenderConfig.italic_marker \o b \o RenderConfig.italic_marker
                      ELSE b
            IN  IF rs[k].superscript THEN <<"^">> \o it \o <<"^">> ELSE it])

\* FrontmatterRenderer.render
FrontmatterRenderer_render(md) ==
    LET Line(key, value) == <<key, ":", " ", "\"">> \o value \o <<"\"">>
        fields ==
            (IF md.title # <<>> /\ md.title # <<"IB Report">>
             THEN <<Line("title", md.title)>> ELSE <<>>)
            \o (IF md.subtitle # <<>> THEN <<Line("subtitle", md.subtitle)>> ELSE <<>>)
            \o (IF md.company # <<>> /\ md.company # <<"Korea Development Bank">>
                THEN <<Line("company", md.company)>> ELSE <<>>)
            \o (IF md.ticker # <<>> THEN <<Line("ticker", md.ticker)>> ELSE <<>>)
            \o (IF md.sector # <<>> /\ md.sector # <<"SECTOR">>
                THEN <<Line("sector", md.sector)>> ELSE <<>>)
            \o (IF md.analyst # <<>> /\ md.analyst # <<"DCM Team 1">>
                THEN <<Line("analyst", md.analyst)>> ELSE <<>>)
            \o [k \in 1..Len(md.extra) |-> Line(md.extra[k][1], md.extra[k][2])]
        ls == <<<<"-", "-", "-">>>> \o fields \o <<<<"-", "-", "-">>, <<>>>>
    IN  IF Len(ls) > 3 THEN Join(ls, "\n") ELSE <<>>

\* HeadingRenderer.render
HeadingRenderer_render(heading) ==
    [k \in 1..heading.level |-> "#"] \o <<" ">>
        \o Strip(ReplaceSeq(heading.text, 1, <<"*", "*">>, <<>>)) \o <<"\n">>

\* the text of a paragraph or of a list item: its runs when it has runs
RunsOrText(item) == IF item.runs # <<>> THEN TextRunRenderer_render(item.runs) ELSE item.text

\* ParagraphRenderer.render
ParagraphRenderer_render(para) == RunsOrText(para) \o <<"\n">>

\* "  " * item.indent_level
Indent(n) == Flatten([k \in 1..n |-> <<" ", " ">>])

\* ListRenderer.render_bullet
render_bullet(item) ==
    Indent(item.indent_level) \o <<"-", " ">> \o RunsOrText(item) \o <<"\n">>

\* ListRenderer.render_numbered
render_numbered(number, item) ==
    Indent(item.indent_level) \o number \o <<".", " ">> \o RunsOrText(item) \o <<"\n">>

\* TableRenderer._escape_cell
_escape_cell(s) == Strip(Replace(Replace(s, "|", <<"\\", "|">>), "\n", <<" ">>))

\* TableRenderer.render
TableRenderer_render(tb) ==
    IF tb.rows = <<>> THEN <<>>
    ELSE LET Row(cells) == <<"|", " ">> \o JoinSeq(cells, <<" ", "|", " ">>) \o <<" ", "|">>
             Cells(row) == [j \in 1..Len(row.cells) |-> _escape_cell(row.cells[j].content)]
             header_cells == Cells(tb.rows[1])
             Sep(align) == CASE align = "center" -> <<":", "-", "-", "-", ":">>
                             [] align = "right" -> <<"-", "-", "-", ":">>
                             [] OTHER -> <<"-", "-", "-">>
             n == IF Len(tb.alignments) > Len(header_cells) THEN Len(tb.alignments)
                  ELSE Len(header_cells)
             sep_cells == IF RenderConfig.table_alignment /\ tb.alignments # <<>>
                          THEN [j \in 1..n |-> IF j <= Len(tb.alignments)
                                               THEN Sep(tb.alignments[j])
                                               ELSE <<"-", "-", "-">>]
                          ELSE [j \in 1..Len(header_cells) |-> <<"-", "-", "-">>]
         IN  Join(<<Row(header_cells), Row(sep_cells)>>
                    \o [r \in 1..(Len(tb.rows) - 1) |-> Row(Cells(tb.rows[r + 1]))]
                    \o <<<<>>>>, "\n")

\* BlockquoteRenderer.render
BlockquoteRenderer_render(blockquote) ==
    LET ls == Split(blockquote.text, 1, "\n", <<>>)
    IN  Join(<<<<">", " ", "*", "*", "[", blockquote.title, "]", "*", "*">>>>
               \o [k \in 1..Len(ls) |-> IF Strip(ls[k]) # <<>> THEN <<">", " ">> \o ls[k]
                                        ELSE <<">">>]
               \o <<<<>>>>, "\n")

\* ImageRenderer.render
ImageRenderer_render(image) ==
    LET alt == IF image.alt_text # <<>> THEN image.alt_text ELSE <<"Image">>
        path == IF RenderConfig.image_path_prefix # <<>> /\ image.path # <<>>
                THEN RenderConfig.image_path_prefix \o <<"/">> \o image.path
                ELSE image.path
    IN  IF image.base64_data # None /\ RenderConfig.embed_images_base64
        THEN <<"!", "[">> \o alt \o <<"]", "(", "data:", image.mime_type, ";base64,">>
                 \o image.base64_data \o <<")", "\n">>
        ELSE IF path = <<>>
        THEN <<"<!-- Image: ">> \o alt \o <<" (path not available) -->", "\n">>
        ELSE <<"!", "[">> \o alt \o <<"]", "(">> \o path \o <<")", "\n">>

\* what a call returns: a text, or an exception raised
Returned(s) == [raised |-> FALSE, text |-> s]
Raised == [raised |-> TRUE, text |-> <<>>]

\* MarkdownRenderer._render_element.  "number, item = content" raises a
\* ValueError for a tuple that has not two members
_render_element(element) ==
    LET content == element.content
        Is(class) == element.class = class
        etype == element.element_type
    IN  IF etype \in HEADING_TYPES /\ Is("Heading")
        THEN Returned(HeadingRenderer_render(content))
        ELSE IF etype = "PARAGRAPH" /\ Is("Paragraph")
        THEN Returned(ParagraphRenderer_render(content))
        ELSE IF etype = "BULLET_LIST" /\ Is("ListItem")
        THEN Returned(render_bullet(content))
        ELSE IF etype = "NUMBERED_LIST" /\ Is("tuple")
        THEN IF Len(content) # 2 THEN Raised
             ELSE Returned(render_numbered(content[1], content[2]))
        ELSE IF etype = "TABLE" /\ Is("Table")
        THEN Returned(TableRenderer_render(content))
        ELSE IF etype = "BLOCKQUOTE" /\ Is("Blockquote")
        THEN Returned(BlockquoteRenderer_render(content))
        ELSE IF etype = "IMAGE" /\ Is("Image")
        THEN Returned(ImageRenderer_render(content))
        ELSE IF etype = "LATEX_BLOCK" /\ Is("LaTeXEquation")
        THEN Returned(<<"$", "$", "\n">> \o content.expression \o <<"\n", "$", "$", "\n">>)
        ELSE IF etype = "LATEX_INLINE" /\ Is("LaTeXEquation")
        THEN Returned(<<"$">> \o content.expression \o <<"$", "\n">>)
        ELSE IF etype = "SEPARATOR"
        THEN Returned(<<"-", "-", "-", "\n">>)
        ELSE Returned(<<>>)

\* f"<!-- Render error: {element.element_type.name} -->\n"
RenderError(element) == <<"<!-- Render error: ", element.element_type, " -->", "\n">>

\* the body of the loop of render: what one element adds to output_parts
RenderOne(element) ==
    IF _render_element(element).raised THEN <<RenderError(element)>>
    ELSE IF _render_element(element).text # <<>> THEN <<_render_element(element).text>>
    ELSE <<>>

MaxRenderElements == 3

\* a list item of the text x
RenderItem == [text |-> <<"x">>, runs |-> <<>>, indent_level |-> 1]

\* the elements of the documents that are rendered
RenderPool ==
    << [element_type |-> "HEADING_2", class |-> "Heading",
       content |-> Heading(2, <<"*", "*", "x", "*", "*">>, FALSE)],
      [element_type |-> "PARAGRAPH", class |-> "Paragraph",
       content |-> [text |-> <<"x">>, runs |-> <<TextRun(<<"x">>, TRUE, FALSE)>>]],
      [element_type |-> "PARAGRAPH", class |-> "Heading",
       content |-> Heading(2, <<"x">>, FALSE)],
      [element_type |-> "BULLET_LIST", class |-> "ListItem", content |-> RenderItem],
      [element_type |-> "NUMBERED_LIST", class |-> "tuple", content |-> <<<<"1">>, RenderItem>>],
      [element_type |-> "NUMBERED_LIST", class |-> "tuple",
       content |-> <<<<"1">>, RenderItem, RenderItem>>],
      [element_type |-> "TABLE", class |-> "Table",
       content |-> [rows |-> <<[cells |-> <<[content |-> <<"x", "|">>], [content |-> <<"x">>]>>],
                               [cells |-> <<[content |-> <<"x">>]>>]>>,
                    alignments |-> <<"right">>]],
      [element_type |-> "TABLE", class |-> "NoneType", content |-> None],
      [element_type |-> "BLOCKQUOTE", class |-> "Blockquote",
       content |-> [text |-> <<"x", "\n", " ">>, title |-> "KEY INSIGHT"]],
      [element_type |-> "IMAGE", class |-> "Image",
       content |-> [alt_text |-> <<>>, path |-> <<>>, base64_data |-> <<"A", "A", "A", "A">>,
                    mime_type |-> "image/png"]],
      [element_type |-> "IMAGE", class |-> "Image",
       content |-> [alt_text |-> <<"x">>, path |-> <<"x">>, base64_data |-> None,
                    mime_type |-> "image/png"]],
      [element_type |-> "LATEX_BLOCK", class |-> "LaTeXEquation",
       content |-> [expression |-> <<"x">>, is_block |-> TRUE]],
      [element_type |-> "LATEX_INLINE", class |-> "LaTeXEquation",
       content |-> [expression |-> <<"x">>, is_block |-> FALSE]],
      [element_type |-> "SEPARATOR", class |-> "NoneType", content |-> None],
      [element_type |-> "EMPTY", class |-> "NoneType", content |-> None] >>

\* MarkdownRenderer().render(model) has been called
InitRender ==
    /\ pc = "render"
    /\ \E ks \in SeqsUpTo(1..Len(RenderPool), MaxRenderElements) :
           elements = [j \in 1..Len(ks) |-> RenderPool[ks[j]]]
    /\ metadata \in {DocumentMetadata, [DocumentMetadata EXCEPT !.title = <<"x">>]}
    /\ output_parts = <<>>
    /\ i = 0 /\ in_references = FALSE /\ start_idx = 0
    /\ latex_lines = <<>> /\ table_lines = <<>> /\ bq_lines = <<>>
    /\ combined = <<>> /\ idx = 0
    /\ frontmatter_lines = <<>> /\ content_start_idx = 0 /\ parsed_data = <<>>
    /\ remaining = <<>> /\ exception = "None"
    /\ lines = <<>> /\ warnings = <<>> /\ TableIdle /\ TextIdle
    /\ CleanerIdle /\ StructureIdle

renderOthers ==
    <<textVars, lines, tableVars, warnings, frontVars, cleanerVars, structureVars, i,
      in_references, start_idx, latex_lines, table_lines, bq_lines, combined>>

\* output_parts = [] and the frontmatter
RenderFrontmatter ==
    /\ pc = "render"
    /\ output_parts' =
          IF RenderConfig.include_frontmatter /\ FrontmatterRenderer_render(metadata) # <<>>
          THEN <<FrontmatterRenderer_render(metadata)>>
          ELSE <<>>
    /\ pc' = "elements"
    /\ UNCHANGED <<renderOthers, elements, idx>>

\* for element in model.elements: one pass of the loop, idx elements done
RenderElement ==
    /\ pc = "elements" /\ idx < Len(elements)
    /\ output_parts' = output_parts \o RenderOne(elements[idx + 1])
    /\ idx' = idx + 1
    /\ UNCHANGED <<pc, renderOthers, elements>>

\* return "\n".join(output_parts)
RenderReturn ==
    /\ pc = "elements" /\ idx = Len(elements)
    /\ result' = Join(output_parts, "\n")
    /\ pc' = "rendered"
    /\ UNCHANGED <<text, _block_store, _inline_store, _store, runs, outputs, frontmatter,
                   nonTextVars>>

NextRender == RenderFrontmatter \/ RenderElement \/ RenderReturn

SpecRender == InitRender /\ [][NextRender]_vars

\* the text made of the sections ks, and the blocks the sections are to
\* give: for each one its heading "## N. Title" and its sentence
SectionsText(ks) == Flatten([k \in 1..Len(ks) |-> SectionText(ks[k])])
SectionBlocks(ks) ==
    Flatten([k \in 1..Len(ks) |->
                << <<"#", "#", " ">> \o Sections[ks[k]].number \o <<".", " ">>
                       \o Sections[ks[k]].title,
                   Sections[ks[k]].sentence >>])

\* C11: for a single-line text made of numbered major sections whose title
\* is directly followed by its sentence, format_markdown returns, for each
\* section, the heading "## N. Title" as a block of its own and then the
\* sentence of the section as the next block.
C11_MajorSections ==
    pc = "returned" =>
        \A ks \in SeqsUpTo(DOMAIN Sections, MaxReflowPieces) :
            (ks # <<>> /\ text = SectionsText(ks)) =>
                result = JoinBlocks(SectionBlocks(ks))

\* where a known label with its colon stands in s, and the place after the
\* colon
LabelStarts(s) ==
    {p \in 1..Len(s) : \E k \in 1..Len(_LABELS) : MatchesAt(s, p, Append(_LABELS[k], ":"))}
AfterLabel(s, p) ==
    p + 1 + Len(_LABELS[CHOOSE k \in 1..Len(_LABELS) : MatchesAt(s, p, Append(_LABELS[k], ":"))])

\* the n-th smallest element of a set of numbers
Nth(S, n) == CHOOSE x \in S : Cardinality({y \in S : y < x}) = n - 1

\* position q of s is the start of a block, or of a list item that is a block
AtBlockStart(s, q) ==
    \/ q = 1
    \/ q >= 3 /\ s[q - 1] = "\n" /\ s[q - 2] = "\n"
    \/ q >= 5 /\ s[q - 1] = " " /\ s[q - 2] = "-" /\ s[q - 3] = "\n" /\ s[q - 4] = "\n"

\* the label at p of the text has its value glued to the colon
GluedValue(p) ==
    AfterLabel(text, p) <= Len(text) /\ ~IsSpace(text[AfterLabel(text, p)])

\* the label at p of the text is glued to content before it
GluedContent(p) == p > 1 /\ ~IsSpace(text[p - 1])

\* C12: format_markdown writes each known "label:value" of a single-line
\* text as "label: value", with exactly one space, and a label that is glued
\* to content before it starts a block of its own (as such or as a list
\* item).
C12_LabelBlocks ==
    pc = "returned" =>
        /\ Cardinality(LabelStarts(result)) = Cardinality(LabelStarts(text))
        /\ \A n \in 1..Cardinality(LabelStarts(text)) :
               LET p == Nth(LabelStarts(text), n)
                   q == Nth(LabelStarts(result), n)
                   v == AfterLabel(result, q)
               IN  /\ GluedValue(p) =>
                          /\ v + 1 <= Len(result)
                          /\ result[v] = " " /\ ~IsSpace(result[v + 1])
                   /\ GluedContent(p) => AtBlockStart(result, q)

\* a placeholder token of one of the protectors
IsPlaceholder(c) ==
    \E kind \in {"block", "inline", "bold"} :
        \E ix \in 0..MaxReflowPieces : c = PlaceholderOf(kind, ix)

HasPlaceholder(s) == \E k \in 1..Len(s) : IsPlaceholder(s[k])

\* C18: the text that the full reflow of format_markdown returns holds no
\* placeholder token, also when a protected span lies in a title or a
\* field value that goes to the frontmatter block (for a text that holds no
\* placeholder itself).
C18_NoPlaceholderLeft ==
    (pc = "returned" /\ ~HasPlaceholder(text)) => ~HasPlaceholder(result)

\* s without its line breaks
WithoutBreaks(s) == Flatten([k \in 1..Len(s) |-> IF s[k] = "\n" THEN <<>> ELSE <<s[k]>>])

\* C17: math protection, then bold protection, then bold restoration, then
\* math restoration give every protected span back with its original
\* content, a math span inside a bold span included: no placeholder is left
\* and, line breaks apart, the text is the original one.
C17_ProtectorsCompose ==
    pc = "both_restored" =>
        /\ ~HasPlaceholder(result)
        /\ WithoutBreaks(result) = WithoutBreaks(text)

\* the colon at p of the text is directly followed by a character that is
\* no space
ColonBeforeText(p) == text[p] = ":" /\ p < Len(text) /\ ~IsSpace(text[p + 1])

\* the exceptions of the claim for the colon at p of the text: a path or
\* URL, a time or ratio, a double colon, a bold span
ColonException(p) ==
    \/ text[p + 1] \in {"/", "\\"}
    \/ p > 1 /\ IsDigit(text[p - 1]) /\ IsDigit(text[p + 1])
    \/ (p > 1 /\ text[p - 1] = ":") \/ text[p + 1] = ":"
    \/ p \in BoldSpanIndices(text, 1)

\* C16: normalize_colon_spacing_global inserts exactly one space after every
\* colon that a non-space character follows directly, except before "/" or
\* a backslash, between two digits, next to another colon and inside a bold
\* span; every other character of the text stays as it is.
C16_ColonSpacing ==
    pc = "colons_normalized" =>
        result = Flatten([p \in 1..Len(text) |->
                             IF ColonBeforeText(p) /\ ~ColonException(p)
                             THEN <<":", " ">>
                             ELSE <<text[p]>>])

\* a colon has got its space and another one, between two digits, has not
C16_Witness ==
    /\ pc = "colons_normalized"
    /\ \E p \in 1..Len(text) : ColonBeforeText(p) /\ ~ColonException(p)
    /\ \E p \in 2..Len(text) :
           ColonBeforeText(p) /\ IsDigit(text[p - 1]) /\ IsDigit(text[p + 1])
    /\ Len(result) = Len(text) + 1

\* the keyword groups of the table types, highest priority first
TypeGroups ==
    << [table_type |-> "UPSIDE_DOWNSIDE", keywords |-> UPSIDE_DOWNSIDE_KEYWORDS],
       [table_type |-> "BEP_SENSITIVITY", keywords |-> BEP_KEYWORDS],
       [table_type |-> "RISK_MATRIX", keywords |-> RISK_KEYWORDS],
       [table_type |-> "FINANCIAL", keywords |-> FINANCIAL_KEYWORDS \cup YEAR_INDICATORS] >>

\* the groups of which the row holds a keyword
GroupsIn(row_line) ==
    {g \in 1..Len(TypeGroups) :
        ContainsAny(Flatten(_split_row(row_line)), TypeGroups[g].keywords)}

\* C15: the table type is that of the highest-priority keyword group of
\* which the header row (the first data line) holds a keyword, upside or
\* downside before BEP or sensitivity before risk before financial or year,
\* and GENERIC when it holds none; the other rows have no part in it.
C15_TableType ==
    (pc \in {"rows", "done"} /\ data_lines # <<>>) =>
        table.table_type =
            IF GroupsIn(data_lines[1]) = {} THEN "GENERIC"
            ELSE TypeGroups[Min(GroupsIn(data_lines[1]))].table_type

\* a table has been parsed whose header holds keywords of two groups and
\* whose second row holds a keyword of a group of higher priority
C15_Witness ==
    /\ pc = "done" /\ Len(data_lines) >= 2
    /\ Cardinality(GroupsIn(data_lines[1])) >= 2
    /\ GroupsIn(data_lines[2]) # {}
    /\ Min(GroupsIn(data_lines[2])) < Min(GroupsIn(data_lines[1]))
    /\ table.table_type = TypeGroups[Min(GroupsIn(data_lines[1]))].table_type

\* whether the source line l starts with "> "
QuoteLine(l) == Len(l) >= 2 /\ l[1] = ">" /\ l[2] = " "

\* the text of a quote line: what follows the marker, without outer whitespace
QuoteText(l) == Strip(SubSeq(l, 3, Len(l)))

\* lines a..b (counted from 1) are a maximal run of quote lines
QuoteRun(a, b) ==
    /\ a <= b
    /\ \A k \in a..b : QuoteLine(lines[k])
    /\ a = 1 \/ ~QuoteLine(lines[a - 1])
    /\ b = Len(lines) \/ ~QuoteLine(lines[b + 1])

\* a document of quote lines, plain text lines and blank lines only
QuotesAndText ==
    \A k \in 1..Len(lines) : QuoteLine(lines[k]) \/ lines[k] \in {<<>>, <<"x">>}

\* the title and the body the run a..b is to be given
QuoteContent(a, b) ==
    LET first == QuoteText(lines[a])
        labelled == /\ Len(first) >= 3 /\ first[1] = "[" /\ first[3] = "]"
                    /\ Upper(first[2]) \in BLOCKQUOTE_LABELS
        head == IF labelled THEN Strip(SubSeq(first, 4, Len(first))) ELSE first
        texts == <<head>> \o [k \in 1..(b - a) |-> QuoteText(lines[a + k])]
    IN  [title |-> IF labelled THEN Upper(first[2]) ELSE "KEY INSIGHT",
         text |-> Strip(Join(SelectSeq(texts, LAMBDA t : t # <<>>), " "))]

\* C14: in a document of quote lines, plain lines and blank lines, every
\* maximal run of contiguous lines starting with "> " is parsed into exactly
\* one BLOCKQUOTE element that covers the whole run; its title is the known
\* bracketed label of the first line, else KEY INSIGHT, and its body is the
\* texts of the lines joined, without that label
C14_BlockquoteRun ==
    (pc = "done" /\ QuotesAndText) =>
        \A a \in 1..Len(lines) : \A b \in a..Len(lines) :
            QuoteRun(a, b) =>
                LET E == {k \in 1..Len(elements) :
                            elements[k].first >= a - 1 /\ elements[k].last <= b - 1}
                IN  /\ Cardinality(E) = 1
                    /\ \A k \in E :
                         /\ elements[k].element_type = "BLOCKQUOTE"
                         /\ elements[k].first = a - 1 /\ elements[k].last = b - 1
                         /\ elements[k].content = QuoteContent(a, b)

\* the source identifiers of a cite payload: what stands between the
\* separators, without outer whitespace, when something is left of it
SourceIds(payload) ==
    LET tokens == Split(payload, 1, MARKER_SEPARATOR, <<>>)
    IN  SelectSeq([k \in 1..Len(tokens) |-> Strip(tokens[k])], LAMBDA t : t # <<>>)

\* the source identifiers that the cite markers of s cite from position p
\* on, in the order of the citations
RECURSIVE CitedFrom(_, _)
CitedFrom(s, p) ==
    IF p > Len(s) THEN <<>>
    ELSE LET m == _MARKER_BLOCK_RE(s, p)
         IN  IF m.stop = 0 THEN CitedFrom(s, p + 1)
             ELSE (IF LowerStr(m.tag) = <<"cite">> THEN SourceIds(m.payload) ELSE <<>>)
                  \o CitedFrom(s, m.stop + 1)

\* the identifiers of ids in the order of their first citation
RECURSIVE FirstCited(_, _)
FirstCited(ids, seen) ==
    IF ids = <<>> THEN seen
    ELSE FirstCited(Tail(ids),
                    IF \E k \in 1..Len(seen) : seen[k] = Head(ids) THEN seen
                    ELSE Append(seen, Head(ids)))

\* the position of sid in the identifiers ids
NumberOf(ids, sid) == Min({k \in 1..Len(ids) : ids[k] = sid})

CitationsHeading == <<"#", "#", " ", "Citations">>

\* where the citations block of s starts, Len(s) + 1 without one
BlockStart(s) ==
    LET H == {h \in 1..Len(s) : MatchesAt(s, h, CitationsHeading)}
    IN  IF H = {} THEN Len(s) + 1 ELSE Min(H)

\* the numbers of the footnote references "[^N]" of s from position p on,
\* as they are written
RECURSIVE RefsFrom(_, _)
RefsFrom(s, p) ==
    IF p + 1 > Len(s) THEN <<>>
    ELSE IF s[p] = "[" /\ s[p + 1] = "^"
         THEN LET e == FirstIndex(s, p + 2, "]")
              IN  <<SubSeq(s, p + 2, e - 1)>> \o RefsFrom(s, e + 1)
         ELSE RefsFrom(s, p + 1)

\* C19: in footnote cite mode, a clean call that processes the text numbers
\* the distinct source identifiers 1, 2, 3, ... in the order of their first
\* citation, every citation of an identifier carries the number of that
\* identifier, and the returned text ends with a "## Citations" block that
\* lists each identifier once, in the order of the numbers (no block when
\* nothing is cited)
C19_FootnoteNumbers ==
    (pc = "returned" /\ report.applied /\ config.cite_mode = "footnote") =>
        LET cited == CitedFrom(text, 1)
            ids == FirstCited(cited, <<>>)
            out == outputs[1]
            h == BlockStart(out)
        IN  /\ RefsFrom(SubSeq(out, 1, h - 1), 1)
                 = [k \in 1..Len(cited) |-> Decimal(NumberOf(ids, cited[k]))]
            /\ SubSeq(out, h, Len(out))
                 = IF ids = <<>> THEN <<>>
                   ELSE CitationsHeading
                        \o Flatten([k \in 1..Len(ids) |->
                                      <<"\n", "[", "^">> \o Decimal(k)
                                      \o <<"]", ":", " ">> \o ids[k]])
                        \o <<"\n">>

\* C20: a clean call with an activation_mode outside off, auto and on, or a
\* cite_mode outside footnote, inline and strip, raises at its first step: it
\* has detected no marker, substituted nothing and returned no text, whatever
\* the activation mode is
C20_InvalidModesRejected ==
    (/\ pc # "clean"
     /\ \/ config.activation_mode \notin {"off", "auto", "on"}
        \/ config.cite_mode \notin {"footnote", "inline", "strip"}) =>
        /\ pc = "raised" /\ exception # "None"
        /\ outputs = <<>> /\ result = <<>> /\ footnotes = <<>>
        /\ ~report.markers_detected /\ ~report.applied
        /\ report.cite_markers = 0 /\ report.unknown_markers = 0

\* clean has raised in mode off for an invalid cite_mode, on a text that
\* holds a marker block
C20_Witness ==
    /\ pc = "raised"
    /\ config.activation_mode = "off" /\ config.cite_mode = "none"
    /\ detect(text)

\* the block equations of the lines ls from line k on (counted from 1), as
\* pairs of a first and a last line: a single-line equation, or an opening
\* "$$" with all lines up to the next "$$", or the end of the lines
RECURSIVE MathRegions(_, _)
MathRegions(ls, k) ==
    IF k > Len(ls) THEN {}
    ELSE IF IsBlockSingleLine(ls[k]) THEN {<<k, k>>} \cup MathRegions(ls, k + 1)
    ELSE IF is_block_start(ls[k])
         THEN LET D == {d \in (k + 1)..Len(ls) : is_block_start(ls[d])}
                  b == IF D = {} THEN Len(ls) ELSE Min(D)
              IN  {<<k, b>>} \cup MathRegions(ls, b + 1)
         ELSE MathRegions(ls, k + 1)

\* C26: every block equation of the lines (a single-line "$$ ... $$", or the
\* lines from an opening "$$" to the next "$$") is parsed as block math, by
\* one LATEX_BLOCK element that covers exactly its lines, or, when nothing
\* stands between the delimiters, by the warning of an empty block; none of
\* its lines is skipped or gives an element of its own
C26_BlockMathFirst ==
    pc = "done" =>
        \A r \in MathRegions(lines, 1) :
            LET E == {k \in 1..Len(elements) :
                        elements[k].last >= r[1] - 1 /\ elements[k].first <= r[2] - 1}
                W == {k \in 1..Len(warnings) :
                        /\ warnings[k].event = "empty_latex_block"
                        /\ warnings[k].first = r[1] - 1 /\ warnings[k].last = r[2] - 1}
            IN  \/ E = {} /\ W # {}
                \/ /\ Cardinality(E) = 1
                   /\ \A k \in E : /\ elements[k].element_type = "LATEX_BLOCK"
                                   /\ elements[k].first = r[1] - 1
                                   /\ elements[k].last = r[2] - 1

\* C22: every IMAGE element has exactly one source: a path that is not
\* empty and no base64 data, or base64 data with a mime type and an empty
\* path
C22_OneImageSource ==
    pc = "done" =>
        \A k \in 1..Len(elements) :
            elements[k].element_type = "IMAGE" =>
                LET image == elements[k].content
                    file == image.path # <<>> /\ image.base64_data = None
                    embedded == /\ image.base64_data # None /\ image.mime_type # ""
                                /\ image.path = <<>>
                IN  (file \/ embedded) /\ ~(file /\ embedded)

\* the title of a numbered line "N. text" makes it a heading: N is at most
\* 20, the title has at most 40 characters, starts with a letter and holds
\* no sentence-final punctuation
HeadingTitle(l) ==
    LET g == NumberedListGroups(l)
        title == Strip(g.text)
    IN  /\ DigitsValue(g.number) <= 20
        /\ CharCount(title) <= 40
        /\ IsLetter(title[1])
        /\ \A k \in 1..Len(title) : title[k] \notin {".", "!", "?"}

\* C25: a line "N. text" that comes to the numbered-item rule gives exactly
\* one element: a NUMBERED_HEADING of level 2 that is numbered when its
\* title makes it a heading, and else a NUMBERED_LIST item of the number N
C25_NumberedItem ==
    [][(Selected("numbered_list") \/ Selected("numbered_heading")) =>
        /\ Len(elements') = Len(elements) + 1
        /\ LET e == elements'[Len(elements')]
           IN  IF HeadingTitle(line)
               THEN /\ e.element_type = "NUMBERED_HEADING"
                    /\ e.content.level = 2 /\ e.content.is_numbered
               ELSE /\ e.element_type = "NUMBERED_LIST"
                    /\ e.content.number = NumberedListGroups(line).number]_vars

\* C30: when the element parser is at the top of its loop at a line at which
\* extract_references is in its references state, the element parser is in
\* its references state too; and no line that extract_references records as
\* a footnote is the first line of an element
C30_ScannersAgree ==
    /\ (AtLine /\ extract_references(lines).entered[i + 1]) => in_references
    /\ pc = "done" =>
          \A k \in extract_references(lines).recorded :
              \A e \in 1..Len(elements) : elements[e].first # k - 1

\* the continuation lines start_ + 1 .. k - 1 of an embedded image that
\* begins at line start_ (counted from 0), stripped and concatenated
Continuations(start_, k) ==
    Flatten([j \in 1..(k - start_ - 1) |-> Strip(lines[start_ + 1 + j])])

\* parse_multiline in its loop has concatenated at most 49 continuation
\* lines, none of which ends with ")"
CappedLookahead ==
    pc = "b64" =>
        /\ idx - start_idx - 1 \in 0..(max_lookahead - 1)
        /\ combined = RStrip(lines[start_idx + 1]) \o Continuations(start_idx, idx)
        /\ \A j \in (start_idx + 2)..idx :
              ~(Strip(lines[j]) # <<>> /\ Strip(lines[j])[Len(Strip(lines[j]))] = ")")

\* parse_multiline returns an image: the parser goes on at a line in
\* (s, s + 50] and the image element is read from the lines before it
MultilineSuccess ==
    (pc = "b64" /\ pc' = "main") =>
        /\ i' > start_idx /\ i' <= start_idx + max_lookahead
        /\ elements' = elements \o
              <<Base64Element(Base64ImageParser_parse(
                    RStrip(lines[start_idx + 1]) \o Continuations(start_idx, i')),
                    start_idx, i' - 1)>>

\* parse_multiline returns no image: the parser is at line s, with no new
\* element, at the rule after the embedded images
MultilineFailure ==
    (pc = "b64" /\ pc' # "b64" /\ pc' # "main") =>
        /\ pc' = "regular" /\ i' = start_idx /\ elements' = elements

\* the lines at which parse_multiline failed
FailedAt ==
    {warnings[k].first : k \in {j \in 1..Len(warnings) :
                                    warnings[j].event = "base64_multiline_failed"}}

\* C27 as stated: the lookahead of parse_multiline is capped at 49
\* continuation lines and stops at the first one that ends with ")"; an
\* image sends the parser to a line in (s, s + 50]; no image sends it back
\* to line s, which gives an element of its own, read from line s only
C27_CappedLookahead_Stated ==
    /\ []CappedLookahead
    /\ [][MultilineSuccess /\ MultilineFailure]_vars
    /\ [](pc = "done" =>
            \A s \in FailedAt :
                \E k \in 1..Len(elements) : elements[k].first = s /\ elements[k].last = s)

\* C27: the lookahead of parse_multiline is capped at 49 continuation lines
\* and stops at the first one that ends with ")"; an image sends the parser
\* to a line in (s, s + 50]; no image sends it to the regular rules at line
\* s with nothing consumed, and line s, when it begins no table and no
\* blockquote, gives an element read from line s only
C27_CappedLookahead ==
    /\ []CappedLookahead
    /\ [][MultilineSuccess /\ MultilineFailure]_vars
    /\ [](pc = "done" =>
            \A s \in FailedAt :
                RegularBranch(Strip(lines[s + 1])) \notin {"table", "blockquote"} =>
                    \E k \in 1..Len(elements) : elements[k].first = s /\ elements[k].last = s)

\* a document of more than max_lookahead lines whose image was not closed
\* within the lookahead: every line has given an element of its own
C27_Witness ==
    /\ pc = "done" /\ Len(lines) > max_lookahead
    /\ 0 \in FailedAt
    /\ Len(elements) = Len(lines)

\* a candidate at p of the text s that is to get no marker: the text before
\* it ends with "N." (as "N." and "N.N." do), the character before it is no
\* boundary, its stripped title has more than 45 characters, or its title
\* ends in a sentence-final particle
MarkerForbidden(s, p) ==
    LET m == MAJOR_HEADING_RE(s, p)
        title == Strip(SubSeq(s, m.title, m.stop - 1))
    IN  \/ p >= 3 /\ IsDigit(s[p - 2]) /\ s[p - 1] = "."
        \/ p > 1 /\ ~IsSpace(s[p - 1]) /\ s[p - 1] \notin {".", "]", ")"}
        \/ CharCount(title) > 45
        \/ title # <<>> /\ title[Len(title)] \in SENTENCE_FINAL

\* C23: _insert_major_headings inserts no marker for a candidate whose text
\* before ends with "N." or "N.N.", whose preceding character is no
\* whitespace and none of ". ] )", whose stripped title has more than 45
\* characters, or whose title ends in a sentence-final particle
C23_NoMarkerForRejected ==
    [][(pc = "loop" /\ matches # <<>> /\ MarkerForbidden(text, Head(matches)))
          => result' = result]_vars

\* C24: the matches are found once, on the original text, and processed from
\* the last to the first; when a match is processed the working text is the
\* original text up to the end of the match
C24_ReverseOrder ==
    pc = "loop" =>
        /\ LET found == finditer(text)
           IN  /\ Len(matches) <= Len(found)
               /\ \A k \in 1..Len(matches) : matches[k] = found[Len(matches) + 1 - k]
        /\ matches # <<>> =>
              LET stop == MAJOR_HEADING_RE(text, Head(matches)).stop
              IN  /\ Len(result) >= stop - 1
                  /\ SubSeq(result, 1, stop - 1) = SubSeq(text, 1, stop - 1)

\* a match is about to be processed after a later match has got its marker
C24_Witness ==
    /\ pc = "loop" /\ matches # <<>>
    /\ result # text

\* the characters of s that are no whitespace and no "#"
Inked(s) == SelectSeq(s, LAMBDA c : ~IsSpace(c) /\ c # "#")

\* C29: _insert_major_headings only adds: without the markers it has
\* inserted the output has the characters of the input that are no
\* whitespace, in the same order, with no digit of a section number twice or
\* missing, and a rejected candidate leaves the text as it is
C29_OnlyAdds ==
    /\ [](pc = "returned" => Inked(result) = Inked(text))
    /\ [][(pc = "loop" /\ matches # <<>> /\ ~MatchAccepted(result, text, Head(matches)))
            => result' = result]_vars

\* where the label of field k stands in the text s, 0 when it does not:
\* the label of the second field inside the label of the first one is the
\* label of the first field only
LabelAt(s, k) ==
    LET M == {q \in 1..Len(s) :
                /\ FieldPatternAt(s, q, k) > 0
                /\ k = 2 => \A p \in 1..q : FieldPatternAt(s, p, 1) # FieldPatternAt(s, q, 2)}
    IN  IF M = {} THEN 0 ELSE Min(M)

\* the text s after the label of field k up to the next known label
UpToNextLabel(s, k) ==
    LET start == FieldPatternAt(s, LabelAt(s, k), k)
        nexts == {FieldSearch(s, start, j) : j \in 1..Len(_FIELDS)} \ {0}
    IN  SubSeq(s, start, Min(nexts \cup {Len(s) + 1}) - 1)

\* a value of words only
PlainValue(v) == \A k \in 1..Len(v) : IsHangul(v[k]) \/ IsSpace(v[k])

\* each known label stands at most once in the text s
LabelsOnce(s) ==
    \A k \in 1..Len(_FIELDS) :
        Cardinality({q \in 1..Len(s) : FieldPatternAt(s, q, k) > 0}) <= 1

\* C28: where the known labels stand once each, extract leaves a label that
\* does not stand in the text out of the mapping and gives every label
\* that does its value, the text after the label up to the nearest
\* boundary: where the text up to the next known label is plain words
\* that text is the value; and where every value is such the residual text
\* is the text before the first label
C28_AdjacentFields ==
    pc = "extracted" =>
        LET found == {k \in 1..Len(_FIELDS) : LabelAt(text, k) > 0}
        IN  LabelsOnce(text) =>
                 /\ \A k \in 1..Len(_FIELDS) : k \in found <=> FieldKey(k) \in DOMAIN metadata
                 /\ \A k \in found :
                       PlainValue(UpToNextLabel(text, k)) =>
                           metadata[FieldKey(k)] = Strip(UpToNextLabel(text, k))
                 /\ (found # {} /\ \A k \in found : PlainValue(UpToNextLabel(text, k))) =>
                       remaining = Strip(SubSeq(text, 1, Min({LabelAt(text, k) : k \in found}) - 1))

\* an element that cannot be rendered: its rendering raises, or its type is
\* unknown or does not go with the class of its content
BadElement(element) ==
    \/ _render_element(element).raised
    \/ element.element_type \notin HEADING_TYPES \cup
           {"PARAGRAPH", "BULLET_LIST", "NUMBERED_LIST", "TABLE", "BLOCKQUOTE", "IMAGE",
            "LATEX_BLOCK", "LATEX_INLINE", "SEPARATOR", "EMPTY"}
    \/ /\ element.element_type \in HEADING_TYPES => element.class # "Heading"
       /\ element.element_type = "PARAGRAPH" => element.class # "Paragraph"
       /\ element.element_type = "BULLET_LIST" => element.class # "ListItem"
       /\ element.element_type = "NUMBERED_LIST" => element.class # "tuple"
       /\ element.element_type = "TABLE" => element.class # "Table"
       /\ element.element_type = "BLOCKQUOTE" => element.class # "Blockquote"
       /\ element.element_type = "IMAGE" => element.class # "Image"
       /\ element.element_type \in {"LATEX_BLOCK", "LATEX_INLINE"} =>
              element.class # "LaTeXEquation"
       /\ element.element_type \notin {"SEPARATOR", "EMPTY"}

\* the part of the output that stands for an element: a marker in the place
\* of a bad element, the rendered element else, nothing for an element that
\* renders as the empty text
PartOf(element) ==
    IF BadElement(element) THEN <<RenderError(element)>>
    ELSE IF _render_element(element).text # <<>> THEN <<_render_element(element).text>>
    ELSE <<>>

\* C21: render does not stop at a bad element: it returns the frontmatter
\* and, in the order of the elements, the rendering of every other element,
\* with a marker in the place of each element whose rendering raises or
\* whose type is unknown or does not go with its content
C21_RenderGoesOn ==
    pc = "rendered" =>
        LET front == FrontmatterRenderer_render(metadata)
        IN  result = Join((IF front # <<>> THEN <<front>> ELSE <<>>)
                            \o Flatten([k \in 1..Len(elements) |-> PartOf(elements[k])]),
                          "\n")

\* C1: restore(protect(text)) == text, character for character, for a fresh
\* LaTeXProtector and for a fresh BoldProtector.
C1_RoundTrip ==
    (pc = "latex_restored" \/ pc = "bold_restored") => result = text

====
